---- MODULE Spec2Model ----
(***************************************************************************)
(* GHMonaco: a content script that replaces GitHub's file editor with a    *)
(* Monaco editor, loads the file through the Contents API and commits      *)
(* through it.  The module models the editor lifecycle (content script +   *)
(* monaco-injector.ts), the commit paths (commit-hijack.ts, commit-ui.ts), *)
(* the API client (github-api.ts) and the language table                   *)
(* (language-detector.ts).                                                 *)
(***************************************************************************)
EXTENDS Integers, Sequences, FiniteSets, TLC

\* ------------------------------------------------------------------ bounds
MaxEditors == 2        \* editors created in one behaviour
MaxCommits == 1        \* commit triggers in one behaviour
MaxTriggers == 2       \* commit triggers where triggers may overlap
MaxRemoteEdits == 1    \* changes made to the remote by somebody else
MaxPopTimers == 1      \* popstate timers pending at once
MaxNotices == 2        \* toasts and alerts shown in one behaviour

VARIABLES
  loaded,             \* the content script has made its initial attempt
  url,                \* window.location.pathname, as its segments
  els,                \* the native editor container and its wrapper
  parentFlex,         \* the parent of the native container was made a flex box
  containers,         \* number of #ghmonaco-editor-container elements in the page
  editors,            \* every monaco editor created so far, by creation order
  currentEditor,      \* monaco-injector.ts currentEditor (0 is null)
  currentDisposables, \* monaco-injector.ts currentDisposables
  originalContent,    \* monaco-injector.ts originalContent
  initialized,        \* content script flag
  pending,            \* injections suspended at await getFileContent
  button,             \* GitHub's commit button
  hij,                \* the hijackCommitButton call of each injection
  commits,            \* every commit triggered so far, with its requests
  notices,            \* toasts and alerts shown to the user
  remote,             \* the repository on github.com: text of each path
  remoteEdits,        \* changes made to the remote by somebody else
  unloaded,           \* the document was left through window.location.href
  popTimers,          \* pending 100 ms timers of the popstate listener
  lastOp,             \* the handler that ran last and the branch it took
  textarea,           \* GitHub's own textarea, when the page has one
  filename,           \* the argument of a detectLanguage call, as its pieces
  language,           \* what the call returned
  fetchWraps,         \* how many times window.fetch was replaced by a wrapper
  cachedAuthHeaders,  \* github-api.ts cachedAuthHeaders holds a captured header
  nameInput,          \* value of the filename input, as pieces, when the page has one
  nameWatch,          \* the filename input carries an 'input' listener of the script
  form,               \* the form around the commit button, when the page has one
  variants            \* a call of the API client, made with both of its variants

lifeVars == <<els, parentFlex, containers, editors, currentEditor,
              currentDisposables, originalContent, initialized, pending>>
commitVars == <<commits, notices, unloaded>>
envVars == <<url, remote, remoteEdits>>
langVars == <<filename, language>>
authVars == <<fetchWraps, cachedAuthHeaders>>
nameVars == <<nameInput, nameWatch>>
pageVars == <<loaded, url, els, parentFlex, containers, editors, currentEditor,
              currentDisposables, originalContent, initialized, pending, button,
              hij, commits, notices, remote, remoteEdits, unloaded, popTimers,
              lastOp, textarea, authVars, nameVars, form, variants>>
vars == <<pageVars, langVars>>

\* ------------------------------------------------------------ the location
UrlEditA  == <<"o", "r", "edit", "main", "a.ts">>
UrlEditB  == <<"o", "r", "edit", "main", "b.ts">>
UrlNew    == <<"o", "r", "new", "main">>
UrlUpload == <<"o", "r", "upload", "main">>
UrlBlob   == <<"o", "r", "blob", "main", "a.ts">>
Urls == {UrlEditA, UrlEditB, UrlNew, UrlUpload, UrlBlob}

\* /\/(edit|new|upload)\// matches or the pathname ends with '/new'
IsEditPage(u) ==
  \/ \E i \in 1..(Len(u) - 1) : u[i] \in {"edit", "new", "upload"}
  \/ Len(u) > 0 /\ u[Len(u)] = "new"

NullInfo == [null |-> TRUE]

\* lastOp after a step that took no branch worth telling apart
Other == "other"

RECURSIVE JoinPath(_)
JoinPath(segs) ==
  IF segs = <<>> THEN ""
  ELSE IF Len(segs) = 1 THEN segs[1]
  ELSE segs[1] \o "/" \o JoinPath(Tail(segs))

\* ^\/([^\/]+)\/([^\/]+)\/(?:edit|new)\/([^\/]+)(?:\/(.+))?$
ParseRepoInfo(u) ==
  IF Len(u) >= 4 /\ u[3] \in {"edit", "new"}
  THEN [owner |-> u[1], repo |-> u[2], branch |-> u[4],
        path |-> JoinPath(SubSeq(u, 5, Len(u)))]
  ELSE NullInfo

\* ------------------------------------------------------------ the native DOM
ElemIds == {"container", "wrapper"}
DisplayVals == {"", "block"}
NoAttr == "<no attribute>"
AbsentEl == [present |-> FALSE, testid |-> FALSE, display |-> "",
             attr |-> NoAttr, prior |-> ""]

\* An element as the host page renders it: prior remembers the inline display
\* the page gave it, which is what a restore has to bring back.
FreshEl(testid, d) == [present |-> TRUE, testid |-> testid, display |-> d,
                       attr |-> NoAttr, prior |-> d]

\* editor-detector.ts detectGitHubEditor: null unless the page looks like an
\* edit page (by URL or by a [data-testid="code-editor"] element) and an editor
\* container is in the document.
DetectGitHubEditor ==
  /\ IsEditPage(url) \/ (els["container"].present /\ els["container"].testid)
  /\ els["container"].present

\* injectMonacoEditor hides an element by writing its inline style directly
HideDirect(el) == [el EXCEPT !.display = "none"]

\* hideElement: remember the inline display in data-ghmonaco-hidden, then hide
HideElement(el) == [el EXCEPT !.attr = el.display, !.display = "none"]

\* What the injection does to the native container and to each wrapper
HideNative(el) == HideDirect(el)

\* disposeMonacoEditor: every [data-ghmonaco-hidden] element gets its display
\* back from the attribute, and the attribute is removed
RestoreEl(el) ==
  IF el.present /\ el.attr # NoAttr
  THEN [el EXCEPT !.display = el.attr, !.attr = NoAttr]
  ELSE el

\* -------------------------------------------------------- language detection
MaxPieces == 3         \* pieces of a filename

\* A filename is a sequence of pieces: "/", "." and words that hold neither.
Words == {"Dockerfile", "Makefile", "go", "sum", "app", "tsx", "TSX", "notes",
          "unknownext", "constructor", "toString", "Cargo", "lock"}
Pieces == {"/", "."} \cup Words

RECURSIVE Join(_)
Join(ps) == IF ps = <<>> THEN "" ELSE ps[1] \o Join(Tail(ps))

\* String.prototype.toLowerCase on a piece
ToLowerCase(w) ==
  CASE w = "Dockerfile" -> "dockerfile"
    [] w = "Makefile" -> "makefile"
    [] w = "TSX" -> "tsx"
    [] w = "toString" -> "tostring"
    [] w = "Cargo" -> "cargo"
    [] OTHER -> w

RECURSIVE LowerJoin(_)
LowerJoin(ps) == IF ps = <<>> THEN "" ELSE ToLowerCase(ps[1]) \o LowerJoin(Tail(ps))

EXTENSION_MAP ==
  "js" :> "javascript" @@ "jsx" :> "javascript" @@ "mjs" :> "javascript"
  @@ "cjs" :> "javascript" @@ "ts" :> "typescript" @@ "tsx" :> "typescript"
  @@ "mts" :> "typescript" @@ "cts" :> "typescript" @@ "html" :> "html"
  @@ "htm" :> "html" @@ "xhtml" :> "html" @@ "vue" :> "html"
  @@ "svelte" :> "html" @@ "css" :> "css" @@ "scss" :> "scss" @@ "less" :> "less"
  @@ "json" :> "json" @@ "jsonc" :> "json" @@ "json5" :> "json"
  @@ "yaml" :> "yaml" @@ "yml" :> "yaml" @@ "toml" :> "ini" @@ "ini" :> "ini"
  @@ "xml" :> "xml" @@ "svg" :> "xml" @@ "py" :> "python" @@ "pyw" :> "python"
  @@ "rb" :> "ruby" @@ "rake" :> "ruby" @@ "gemspec" :> "ruby" @@ "pl" :> "perl"
  @@ "pm" :> "perl" @@ "lua" :> "lua" @@ "php" :> "php" @@ "sh" :> "shell"
  @@ "bash" :> "shell" @@ "zsh" :> "shell" @@ "fish" :> "shell"
  @@ "ps1" :> "powershell" @@ "psm1" :> "powershell" @@ "bat" :> "bat"
  @@ "cmd" :> "bat" @@ "c" :> "c" @@ "h" :> "c" @@ "cpp" :> "cpp"
  @@ "cxx" :> "cpp" @@ "cc" :> "cpp" @@ "hpp" :> "cpp" @@ "hxx" :> "cpp"
  @@ "cs" :> "csharp" @@ "java" :> "java" @@ "kt" :> "kotlin"
  @@ "kts" :> "kotlin" @@ "go" :> "go" @@ "rs" :> "rust" @@ "swift" :> "swift"
  @@ "m" :> "objective-c" @@ "mm" :> "objective-c" @@ "scala" :> "scala"
  @@ "dart" :> "dart" @@ "r" :> "r" @@ "R" :> "r" @@ "hs" :> "haskell"
  @@ "ex" :> "elixir" @@ "exs" :> "elixir" @@ "erl" :> "erlang"
  @@ "clj" :> "clojure" @@ "cljs" :> "clojure" @@ "fs" :> "fsharp"
  @@ "fsx" :> "fsharp" @@ "md" :> "markdown" @@ "mdx" :> "markdown"
  @@ "markdown" :> "markdown" @@ "rst" :> "restructuredtext" @@ "tex" :> "latex"
  @@ "latex" :> "latex" @@ "sql" :> "sql" @@ "mysql" :> "sql" @@ "pgsql" :> "sql"
  @@ "dockerfile" :> "dockerfile" @@ "tf" :> "hcl" @@ "hcl" :> "hcl"
  @@ "graphql" :> "graphql" @@ "gql" :> "graphql" @@ "proto" :> "protobuf"
  @@ "diff" :> "diff" @@ "patch" :> "diff" @@ "csv" :> "plaintext"
  @@ "txt" :> "plaintext" @@ "log" :> "plaintext"

FILENAME_MAP ==
  "Dockerfile" :> "dockerfile" @@ "Dockerfile.dev" :> "dockerfile"
  @@ "Dockerfile.prod" :> "dockerfile" @@ "Makefile" :> "makefile"
  @@ "GNUmakefile" :> "makefile" @@ "Rakefile" :> "ruby" @@ "Gemfile" :> "ruby"
  @@ "Vagrantfile" :> "ruby" @@ "Brewfile" :> "ruby" @@ "Jenkinsfile" :> "groovy"
  @@ "Cakefile" :> "coffeescript" @@ ".gitignore" :> "ini"
  @@ ".gitattributes" :> "ini" @@ ".editorconfig" :> "ini" @@ ".env" :> "shell"
  @@ ".env.local" :> "shell" @@ ".env.development" :> "shell"
  @@ ".env.production" :> "shell" @@ ".babelrc" :> "json"
  @@ ".eslintrc" :> "json" @@ ".prettierrc" :> "json"
  @@ "tsconfig.json" :> "json" @@ "package.json" :> "json"
  @@ "package-lock.json" :> "json" @@ "composer.json" :> "json"
  @@ "Cargo.toml" :> "ini" @@ "Cargo.lock" :> "ini" @@ "go.mod" :> "go"
  @@ "go.sum" :> "plaintext"

\* Both tables are object literals: a property read finds the own keys and,
\* failing that, what every object inherits from Object.prototype. Such a
\* value is a function or an object, never a string; undefined when neither.
ObjectPrototypeKeys == {"constructor", "toString", "toLocaleString", "valueOf",
                        "hasOwnProperty", "isPrototypeOf",
                        "propertyIsEnumerable", "__proto__"}
Undefined == "<undefined>"
Inherited(key) == "<Object.prototype." \o key \o ">"
Lookup(table, key) ==
  IF key \in DOMAIN table THEN table[key]
  ELSE IF key \in ObjectPrototypeKeys THEN Inherited(key)
  ELSE Undefined

\* every table value is a non-empty string and every inherited value an object
\* or a function: only undefined is falsy
Truthy(v) == v # Undefined

\* the index of the last piece equal to p, 0 when there is none
LastIndexOf(ps, p) ==
  IF \E i \in DOMAIN ps : ps[i] = p
  THEN CHOOSE i \in DOMAIN ps : ps[i] = p /\ \A j \in DOMAIN ps : ps[j] = p => j <= i
  ELSE 0

\* a basename that is the whole name, directories included
BasenameWholeName(ps) == ps

\* filename.split('/').pop() || filename
Basename(ps) ==
  LET last == SubSeq(ps, LastIndexOf(ps, "/") + 1, Len(ps))
  IN IF last # <<>> THEN last ELSE ps

\* basename.startsWith('Dockerfile'): no other word of Words begins with it
StartsWithDockerfile(ps) == ps # <<>> /\ ps[1] = "Dockerfile"

\* language-detector.ts detectLanguage
DetectLanguage(ps) ==
  LET basename == Basename(ps)
      dotIndex == LastIndexOf(basename, ".")
      ext == LowerJoin(SubSeq(basename, dotIndex + 1, Len(basename)))
  IN IF ps = <<>> THEN "plaintext"
     ELSE IF Truthy(Lookup(FILENAME_MAP, Join(ps))) THEN Lookup(FILENAME_MAP, Join(ps))
     ELSE IF Truthy(Lookup(FILENAME_MAP, Join(basename)))
     THEN Lookup(FILENAME_MAP, Join(basename))
     ELSE IF StartsWithDockerfile(basename) THEN "dockerfile"
     ELSE IF dotIndex # 0
     THEN IF Truthy(Lookup(EXTENSION_MAP, ext)) THEN Lookup(EXTENSION_MAP, ext)
          ELSE "plaintext"
     ELSE "plaintext"

Filenames == UNION {[1..n -> Pieces] : n \in 0..MaxPieces}
NoLanguage == "<not called>"

\* --------------------------------------------------------------- the editor
Placeholder == "// Loading file from GitHub API..."
NullText == "<null>"

NewEditor(info) == [value |-> Placeholder, readOnly |-> TRUE, disposed |-> FALSE,
                    info |-> info, content |-> NullText, action |-> FALSE,
                    staleUse |-> FALSE, resize |-> FALSE, textarea |-> FALSE,
                    language |-> "plaintext"]

\* the page has no filename input
NoInput == "<no input>"

\* the pieces of a path segment of the location
PathPieces(seg) ==
  CASE seg = "a.ts" -> <<"a", ".", "ts">>
    [] seg = "b.ts" -> <<"b", ".", "ts">>
    [] OTHER -> <<seg>>

RECURSIVE SlashJoin(_)
SlashJoin(segs) ==
  IF segs = <<>> THEN <<>>
  ELSE IF Len(segs) = 1 THEN PathPieces(segs[1])
  ELSE PathPieces(segs[1]) \o <<"/">> \o SlashJoin(Tail(segs))

\* editor-detector.ts getFilename: the value of the filename input, else what
\* follows the branch in an /edit/ location, else ''
GetFilename ==
  IF nameInput # NoInput THEN nameInput
  ELSE IF \E i \in 1..(Len(url) - 1) : url[i] = "edit"
  THEN LET i == CHOOSE i \in 1..(Len(url) - 1) :
                  url[i] = "edit" /\ \A j \in 1..(i - 1) : url[j] # "edit"
       IN SlashJoin(SubSeq(url, i + 2, Len(url)))
  ELSE <<>>

\* editor-detector.ts observeFilenameChanges: the 'input' listener is added
\* when the page has a filename input; nothing ever removes it
ObserveFilenameChanges == nameWatch \/ nameInput # NoInput

\* github-api.ts interceptGitHubFetch, called by githubApiFetch before each of
\* n requests: window.fetch is wrapped unless a header was captured already
InterceptGitHubFetch(n) == IF cachedAuthHeaders THEN fetchWraps ELSE fetchWraps + n

\* the textarea detectGitHubEditor found (elements.textarea), or none
NoTextarea == [present |-> FALSE, value |-> ""]

\* a guard that trusts the flag instead of looking for the element
ContainerExistsByFlag == containers > 0 /\ initialized

\* document.getElementById(MONACO_CONTAINER_ID) finds an element
ContainerExists == containers > 0

\* --------------------------------------------------------- the Contents API
Paths == {"a.ts", "b.ts"}
Absent == "<absent>"
NetOutcomes == {"ok", "http_error", "neterr"}

\* btoa(unescape(encodeURIComponent(text))) and its inverse; '' encodes to ''
Btoa(text) == IF text = "" THEN <<>> ELSE <<"b64", text>>
Atob(b) == IF b = <<>> THEN "" ELSE b[2]

\* a text that holds a lone surrogate: encodeURIComponent throws URIError on
\* it, so btoa(unescape(encodeURIComponent(text))) throws
LoneSurrogate == "<lone surrogate \\uD800>"
EncodeThrows(text) == text = LoneSurrogate

\* the blob SHA of a text; NoSha is null / undefined
NoSha == <<>>
Sha(text) == <<"sha", text>>

\* github.com answering GET /contents/<path>: the file, a directory listing
\* (no content, no sha) for the repository root, or 404
ServerGet(path) ==
  IF path \in Paths /\ remote[path] # Absent
  THEN [ok |-> TRUE, content |-> Btoa(remote[path]), sha |-> Sha(remote[path])]
  ELSE IF path = ""
  THEN [ok |-> TRUE, content |-> <<>>, sha |-> NoSha]
  ELSE [ok |-> FALSE, content |-> <<>>, sha |-> NoSha]

\* what githubApiFetch resolves to for a GET: the server's answer, a non-2xx
\* answer (403, 5xx) or a rejected promise
GetResponse(path, net) ==
  IF net = "ok" THEN ServerGet(path)
  ELSE [ok |-> FALSE, content |-> <<>>, sha |-> NoSha]

\* github-api.ts getFileContent
GetFileContent(info, net) ==
  LET r == GetResponse(info.path, net) IN
  IF ~r.ok THEN NullText
  ELSE IF r.content # <<>> THEN Atob(r.content)
  ELSE NullText

\* github-api.ts getFileSha
GetFileSha(info, net) ==
  LET r == GetResponse(info.path, net) IN
  IF ~r.ok THEN NoSha ELSE r.sha

\* --------------------------------------------------------- the commit button
maxAttempts == 50
ButtonText == "Commit changes..."
NoButton == [present |-> FALSE, hijacked |-> FALSE, listeners |-> <<>>,
             disabled |-> FALSE, text |-> ""]
FreshButton(disabled) == [present |-> TRUE, hijacked |-> FALSE, listeners |-> <<>>,
                          disabled |-> disabled, text |-> ButtonText]
NoSession == [wired |-> FALSE, attempts |-> 0, polling |-> FALSE,
              observing |-> FALSE, btnTimer |-> FALSE]

\* findCommitButton: a button whose text has 'commit' in it ("Commit changes..."
\* and "Committing..." both have)
FindCommitButton(b) == b.present

\* a findAndHijack that neither looks at the mark nor replaces the button by a
\* clone: the listener is added to the button it finds
FindAndHijackInPlace(b, e) ==
  IF ~FindCommitButton(b) THEN b
  ELSE [b EXCEPT !.hijacked = TRUE, !.listeners = Append(@, e)]

\* findAndHijack for the getter of editor e: a button that carries the
\* data-ghmonaco-hijacked mark is left as it is; otherwise it is marked and
\* replaced by a clone (no listeners) that gets interceptCommit of editor e
FindAndHijack(b, e) ==
  IF ~FindCommitButton(b) THEN b
  ELSE IF b.hijacked THEN b
  ELSE [b EXCEPT !.hijacked = TRUE, !.listeners = <<e>>]

\* the <form> the commit button sits in, when there is one
NoForm == [present |-> FALSE, hijacked |-> FALSE, listeners |-> <<>>]
FreshForm == [present |-> TRUE, hijacked |-> FALSE, listeners |-> <<>>]

\* findAndHijack, its last step: when it hijacked button b, the form around
\* the button gets the mark and interceptCommit as a submit listener, unless
\* the form carries the mark already
HijackForm(b, f, e) ==
  IF FindCommitButton(b) /\ ~b.hijacked /\ f.present /\ ~f.hijacked
  THEN [f EXCEPT !.hijacked = TRUE, !.listeners = Append(@, e)]
  ELSE f

\* document.querySelector('[data-ghmonaco-hijacked="true"]') finds an element
MarkInDocument ==
  \/ button.present /\ button.hijacked
  \/ form.present /\ form.hijacked

\* an enableCommitButton that only ever enables
EnableCommitButtonAlways(b, v) ==
  IF b.present THEN [b EXCEPT !.disabled = FALSE] ELSE b

\* enableCommitButton of editor e with value v: the commit button is disabled
\* exactly when the editor shows the baseline
EnableCommitButton(b, v) ==
  IF b.present THEN [b EXCEPT !.disabled = (v = originalContent)] ELSE b

\* ------------------------------------------------------- the content script
Range(q) == {q[i] : i \in DOMAIN q}

\* a disposeMonacoEditor that removes a container without looking for one
DisposeRemovesUnguarded ==
  /\ editors' = [i \in DOMAIN editors |->
        IF i = currentEditor
        THEN [editors[i] EXCEPT !.disposed = TRUE, !.action = FALSE]
        ELSE IF i \in Range(currentDisposables)
        THEN [editors[i] EXCEPT !.action = FALSE]
        ELSE editors[i]]
  /\ currentEditor' = 0
  /\ currentDisposables' = <<>>
  /\ els' = [e \in ElemIds |-> RestoreEl(els[e])]
  /\ containers' = containers - 1

\* monaco-injector.ts disposeMonacoEditor
DisposeMonacoEditor ==
  /\ editors' = [i \in DOMAIN editors |->
        IF i = currentEditor
        THEN [editors[i] EXCEPT !.disposed = TRUE, !.action = FALSE]
        ELSE IF i \in Range(currentDisposables)
        THEN [editors[i] EXCEPT !.action = FALSE]
        ELSE editors[i]]
  /\ currentEditor' = 0
  /\ currentDisposables' = <<>>
  /\ els' = [e \in ElemIds |-> RestoreEl(els[e])]
  /\ containers' = IF ContainerExists THEN containers - 1 ELSE containers

\* content script cleanup
Cleanup ==
  IF ~initialized
  THEN lastOp' = "cleanup:noop" /\ UNCHANGED lifeVars
  ELSE /\ DisposeMonacoEditor
       /\ initialized' = FALSE
       /\ lastOp' = "cleanup"
       /\ UNCHANGED <<parentFlex, originalContent, pending>>

\* a teardown has just run, or no editor was ever injected
TornDown == lastOp \in {"cleanup", "cleanup:noop", "dispose"} \/ editors = <<>>

\* cleanup called once more, right after a teardown or before any injection
CallCleanup ==
  /\ loaded /\ ~unloaded
  /\ TornDown
  /\ Cleanup
  /\ UNCHANGED <<langVars, variants, form, authVars, nameVars, textarea, loaded, hij, button, commitVars, envVars, popTimers>>

\* disposeMonacoEditor called once more, right after a teardown or before any
\* injection
CallDisposeMonacoEditor ==
  /\ loaded /\ ~unloaded
  /\ TornDown
  /\ DisposeMonacoEditor
  /\ lastOp' = "dispose"
  /\ UNCHANGED <<langVars, variants, form, authVars, nameVars, textarea, loaded, parentFlex, originalContent, initialized,
                 pending, hij, button, commitVars, envVars, popTimers>>

\* injectMonacoEditor up to await getFileContent: the container is inserted
\* before the native one, the native editor and its wrappers are hidden, the
\* editor is created read-only with the placeholder and becomes currentEditor
InjectCreate ==
  /\ Len(editors) < MaxEditors
  /\ containers' = containers + 1
  /\ parentFlex' = TRUE
  /\ els' = [e \in ElemIds |-> IF els[e].present THEN HideNative(els[e]) ELSE els[e]]
  /\ editors' = Append(editors, [NewEditor(ParseRepoInfo(url))
                                   EXCEPT !.textarea = textarea.present,
                                          !.language = DetectLanguage(GetFilename)])
  /\ fetchWraps' = InterceptGitHubFetch(1)
  /\ nameWatch' = nameWatch
  /\ currentEditor' = Len(editors) + 1
  /\ pending' = pending \cup {Len(editors) + 1}
  /\ hij' = Append(hij, NoSession)
  /\ lastOp' = "inject:create"
  /\ UNCHANGED <<currentDisposables, originalContent, initialized>>

\* tryInjectEditor with the repository info parsed only after the container
\* was inserted and the native editor hidden
TryInjectEditorParseLate ==
  IF initialized
  THEN lastOp' = Other /\ UNCHANGED <<lifeVars, hij, fetchWraps, nameWatch>>
  ELSE IF ~DetectGitHubEditor
  THEN lastOp' = "try:nodetect" /\ UNCHANGED <<lifeVars, hij, fetchWraps, nameWatch>>
  ELSE IF ContainerExists
  THEN /\ initialized' = (currentEditor # 0)
       /\ nameWatch' = IF currentEditor # 0 THEN ObserveFilenameChanges ELSE nameWatch
       /\ fetchWraps' = fetchWraps
       /\ lastOp' = "try:existing"
       /\ UNCHANGED <<els, parentFlex, containers, editors, currentEditor,
                      currentDisposables, originalContent, pending, hij>>
  ELSE IF ParseRepoInfo(url) = NullInfo
  THEN /\ containers' = containers + 1
       /\ parentFlex' = TRUE
       /\ els' = [e \in ElemIds |-> IF els[e].present THEN HideNative(els[e]) ELSE els[e]]
       /\ lastOp' = "try:noparse"
       /\ UNCHANGED <<editors, currentEditor, currentDisposables, originalContent,
                      initialized, pending, hij, fetchWraps, nameWatch>>
  ELSE InjectCreate

\* tryInjectEditor whose injectMonacoEditor inserts a container again when it
\* finds one
TryInjectEditorInsertAgain ==
  IF initialized
  THEN lastOp' = Other /\ UNCHANGED <<lifeVars, hij, fetchWraps, nameWatch>>
  ELSE IF ~DetectGitHubEditor
  THEN lastOp' = "try:nodetect" /\ UNCHANGED <<lifeVars, hij, fetchWraps, nameWatch>>
  ELSE IF ContainerExists
  THEN /\ initialized' = (currentEditor # 0)
       /\ nameWatch' = IF currentEditor # 0 THEN ObserveFilenameChanges ELSE nameWatch
       /\ fetchWraps' = fetchWraps
       /\ containers' = containers + 1
       /\ lastOp' = "try:existing"
       /\ UNCHANGED <<els, parentFlex, editors, currentEditor,
                      currentDisposables, originalContent, pending, hij>>
  ELSE IF ParseRepoInfo(url) = NullInfo
  THEN lastOp' = "try:noparse" /\ UNCHANGED <<lifeVars, hij, fetchWraps, nameWatch>>
  ELSE InjectCreate

\* content script tryInjectEditor, with injectMonacoEditor up to its await.
\* When injectMonacoEditor returns at once (existing container, no repository
\* info) the rest of tryInjectEditor runs in the same turn.
TryInjectEditor ==
  IF initialized
  THEN lastOp' = Other /\ UNCHANGED <<lifeVars, hij, fetchWraps, nameWatch>>
  ELSE IF ~DetectGitHubEditor
  THEN lastOp' = "try:nodetect" /\ UNCHANGED <<lifeVars, hij, fetchWraps, nameWatch>>
  ELSE IF ContainerExists
  THEN /\ initialized' = (currentEditor # 0)
       /\ nameWatch' = IF currentEditor # 0 THEN ObserveFilenameChanges ELSE nameWatch
       /\ fetchWraps' = fetchWraps
       /\ lastOp' = "try:existing"
       /\ UNCHANGED <<els, parentFlex, containers, editors, currentEditor,
                      currentDisposables, originalContent, pending, hij>>
  ELSE IF ParseRepoInfo(url) = NullInfo
  THEN lastOp' = "try:noparse" /\ UNCHANGED <<lifeVars, hij, fetchWraps, nameWatch>>
  ELSE InjectCreate

\* the script's top-level call of tryInjectEditor
InitialAttempt ==
  /\ ~loaded /\ ~unloaded
  /\ loaded' = TRUE
  /\ TryInjectEditor
  /\ UNCHANGED <<langVars, variants, form, cachedAuthHeaders, nameInput, textarea, button, commitVars, envVars, popTimers>>

\* pageObserver's callback; added says whether a mutation added nodes
PageMutation(added) ==
  /\ loaded /\ ~unloaded
  /\ IF ~IsEditPage(url) /\ initialized
     THEN Cleanup /\ UNCHANGED <<hij, fetchWraps, nameWatch>>
     ELSE IF IsEditPage(url) /\ ~initialized /\ added
     THEN TryInjectEditor
     ELSE lastOp' = Other /\ UNCHANGED <<lifeVars, hij, fetchWraps, nameWatch>>
  /\ UNCHANGED <<langVars, variants, form, cachedAuthHeaders, nameInput, textarea, loaded, button, commitVars, envVars, popTimers>>

\* what the turbo:load listener and the popstate timer do
OnNavigationEvent ==
  IF IsEditPage(url) /\ ~initialized
  THEN TryInjectEditor
  ELSE IF ~IsEditPage(url) /\ initialized
  THEN Cleanup /\ UNCHANGED <<hij, fetchWraps, nameWatch>>
  ELSE lastOp' = Other /\ UNCHANGED <<lifeVars, hij, fetchWraps, nameWatch>>

TurboLoad ==
  /\ loaded /\ ~unloaded
  /\ OnNavigationEvent
  /\ UNCHANGED <<langVars, variants, form, cachedAuthHeaders, nameInput, textarea, loaded, button, commitVars, envVars, popTimers>>

\* the popstate listener only starts a 100 ms timer
Popstate ==
  /\ loaded /\ ~unloaded
  /\ popTimers < MaxPopTimers
  /\ popTimers' = popTimers + 1
  /\ lastOp' = Other
  /\ UNCHANGED <<langVars, variants, form, authVars, nameVars, textarea, loaded, lifeVars, hij, button, commitVars, envVars>>

PopstateTimer ==
  /\ ~unloaded
  /\ popTimers > 0
  /\ popTimers' = popTimers - 1
  /\ OnNavigationEvent
  /\ UNCHANGED <<langVars, variants, form, cachedAuthHeaders, nameInput, textarea, loaded, button, commitVars, envVars>>

\* editor.getValue(): '' once the editor is disposed (its model is detached)
GetValue(e) == IF editors[e].disposed THEN "" ELSE editors[e].value

\* a continuation that adds the commit action and hijacks the button but leaves
\* the placeholder in the editor
FetchDoneKeepsPlaceholder(i, net) ==
  /\ ~unloaded
  /\ i \in pending
  /\ LET c == GetFileContent(editors[i].info, net)
         v == IF c # NullText THEN c ELSE ""
     IN /\ editors' = [editors EXCEPT ![i] =
               IF @.disposed
               THEN [@ EXCEPT !.staleUse = TRUE, !.content = c, !.resize = TRUE]
               ELSE [@ EXCEPT !.readOnly = FALSE, !.content = c,
                              !.action = TRUE, !.resize = TRUE]]
        /\ originalContent' = v
        /\ lastOp' = IF c # NullText THEN "fetch:loaded"
                     ELSE IF GetResponse(editors[i].info.path, net).ok THEN "fetch:empty"
                     ELSE "fetch:failed"
  /\ currentDisposables' = Append(currentDisposables, i)
  /\ button' = FindAndHijack(button, i)
  /\ form' = HijackForm(button, form, i)
  /\ hij' = [hij EXCEPT ![i] =
        [wired |-> TRUE, attempts |-> 1,
         polling |-> ~FindCommitButton(button) /\ 1 < maxAttempts,
         observing |-> TRUE, btnTimer |-> TRUE]]
  /\ initialized' = TRUE
  /\ nameWatch' = ObserveFilenameChanges
  /\ pending' = pending \ {i}
  /\ UNCHANGED <<langVars, variants, authVars, nameInput, textarea, loaded, els, parentFlex, containers, currentEditor,
                 commitVars, envVars, popTimers>>

\* injectMonacoEditor from the point where getFileContent settles, then the
\* rest of the tryInjectEditor call that awaited it: the text (or '') becomes
\* the value and the baseline, the editor becomes writable, the commit action
\* is added, hijackCommitButton makes its first attempt, and initialized is set
FetchDone(i, net) ==
  /\ ~unloaded
  /\ i \in pending
  /\ LET c == GetFileContent(editors[i].info, net)
         v == IF c # NullText THEN c ELSE ""
     IN /\ editors' = [editors EXCEPT ![i] =
               IF @.disposed
               THEN [@ EXCEPT !.staleUse = TRUE, !.content = c, !.resize = TRUE]
               ELSE [@ EXCEPT !.value = v, !.readOnly = FALSE, !.content = c,
                              !.action = TRUE, !.resize = TRUE]]
        /\ originalContent' = v
        /\ lastOp' = IF c # NullText THEN "fetch:loaded"
                     ELSE IF GetResponse(editors[i].info.path, net).ok THEN "fetch:empty"
                     ELSE "fetch:failed"
  /\ currentDisposables' = Append(currentDisposables, i)
  /\ button' = FindAndHijack(button, i)
  /\ form' = HijackForm(button, form, i)
  /\ hij' = [hij EXCEPT ![i] =
        [wired |-> TRUE, attempts |-> 1,
         polling |-> ~FindCommitButton(button) /\ 1 < maxAttempts,
         observing |-> TRUE, btnTimer |-> TRUE]]
  /\ initialized' = TRUE
  /\ nameWatch' = ObserveFilenameChanges
  /\ pending' = pending \ {i}
  /\ UNCHANGED <<langVars, variants, authVars, nameInput, textarea, loaded, els, parentFlex, containers, currentEditor,
                 commitVars, envVars, popTimers>>

\* tryFind without its attempts < maxAttempts test: it schedules itself for as
\* long as the button is missing
PollTimerUncapped(i) ==
  /\ ~unloaded
  /\ hij[i].polling
  /\ button' = FindAndHijack(button, i)
  /\ form' = HijackForm(button, form, i)
  /\ hij' = [hij EXCEPT ![i].attempts = @ + 1,
                        ![i].polling = ~FindCommitButton(button)]
  /\ lastOp' = Other
  /\ UNCHANGED <<langVars, variants, authVars, nameVars, textarea, loaded, lifeVars, commitVars, envVars, popTimers>>

\* commit-hijack.ts tryFind run by its 200 ms timer
PollTimer(i) ==
  /\ ~unloaded
  /\ hij[i].polling
  /\ button' = FindAndHijack(button, i)
  /\ form' = HijackForm(button, form, i)
  /\ hij' = [hij EXCEPT ![i].attempts = @ + 1,
                        ![i].polling = ~FindCommitButton(button)
                                       /\ hij[i].attempts + 1 < maxAttempts]
  /\ lastOp' = Other
  /\ UNCHANGED <<langVars, variants, authVars, nameVars, textarea, loaded, lifeVars, commitVars, envVars, popTimers>>

\* the mutation observer of hijackCommitButton: it hijacks when no element of
\* the document carries the mark
HijackObserver(i) ==
  /\ ~unloaded
  /\ hij[i].observing
  /\ button' = IF MarkInDocument THEN button ELSE FindAndHijack(button, i)
  /\ form' = IF MarkInDocument THEN form ELSE HijackForm(button, form, i)
  /\ lastOp' = Other
  /\ UNCHANGED <<langVars, variants, authVars, nameVars, textarea, loaded, lifeVars, hij, commitVars, envVars, popTimers>>

\* setTimeout(() => observer.disconnect(), 30000)
ObserverTimeout(i) ==
  /\ ~unloaded
  /\ hij[i].observing
  /\ hij' = [hij EXCEPT ![i].observing = FALSE]
  /\ lastOp' = Other
  /\ UNCHANGED <<langVars, variants, form, authVars, nameVars, textarea, loaded, lifeVars, button, commitVars, envVars, popTimers>>

\* setTimeout(() => enableCommitButton(), 500)
EnableTimer(i) ==
  /\ ~unloaded
  /\ hij[i].btnTimer
  /\ hij' = [hij EXCEPT ![i].btnTimer = FALSE]
  /\ button' = EnableCommitButton(button, GetValue(i))
  /\ lastOp' = Other
  /\ UNCHANGED <<langVars, variants, form, authVars, nameVars, textarea, loaded, lifeVars, commitVars, envVars, popTimers>>

\* the user types in a writable editor; its onDidChangeModelContent handler,
\* once registered, runs enableCommitButton
TypedTexts == {"typed"}
UserType(e, t) ==
  /\ ~unloaded
  /\ ~editors[e].disposed /\ ~editors[e].readOnly
  /\ t # editors[e].value
  /\ editors' = [editors EXCEPT ![e].value = t]
  /\ button' = IF hij[e].wired THEN EnableCommitButton(button, t) ELSE button
  /\ textarea' = IF hij[e].wired /\ editors[e].textarea
                 THEN [textarea EXCEPT !.value = t] ELSE textarea
  /\ lastOp' = IF hij[e].wired /\ editors[e].textarea THEN "type:mirrored"
               ELSE Other
  /\ UNCHANGED <<langVars, variants, form, authVars, nameVars, loaded, els, parentFlex, containers, currentEditor,
                 currentDisposables, originalContent, initialized, pending,
                 hij, commitVars, envVars, popTimers>>

\* ---------------------------------------------------------------- commits
\* a body that never carries the SHA
PutBodyWithoutSha(info, message, content, sha) ==
  [message |-> message, content |-> Btoa(content), branch |-> info.branch,
   sha |-> NoSha]

\* the body commitFile sends: sha is there only when there is a SHA (NoSha
\* stands for a body without the field)
PutBody(info, message, content, sha) ==
  [message |-> message, content |-> Btoa(content), branch |-> info.branch,
   sha |-> sha]

\* commitFile looks the SHA up when none was given and the path is not empty
NeedsShaLookup(info, optSha) == optSha = NoSha /\ info.path # ""

NoResponse == [ok |-> FALSE, content |-> <<>>, sha |-> NoSha]
NoBody == [none |-> TRUE]

\* a commitFile call at its start, up to its first await: the SHA lookup, or
\* the PUT when no lookup is made. The content is encoded outside the try
\* block: when the encoding throws, the promise of commitFile is rejected
\* (stage "rejected") and no PUT is sent
StartCommit(trigger, e, info, message, content, optSha) ==
  [trigger |-> trigger, editor |-> e, info |-> info, content |-> content,
   message |-> message, optSha |-> optSha,
   stage |-> IF NeedsShaLookup(info, optSha) THEN "sha"
             ELSE IF EncodeThrows(content) THEN "rejected" ELSE "put",
   looked |-> FALSE, shaResp |-> NoResponse,
   body |-> IF NeedsShaLookup(info, optSha) \/ EncodeThrows(content) THEN NoBody
            ELSE PutBody(info, message, content, optSha),
   success |-> FALSE, detached |-> FALSE]

\* github.com deciding a PUT /contents/<path>: an existing file needs its
\* current blob SHA, a new file needs none
ServerAccepts(path, body) ==
  /\ path \in Paths
  /\ IF remote[path] # Absent THEN body.sha = Sha(remote[path])
     ELSE body.sha = NoSha

\* commit-hijack.ts interceptCommit up to its await, for a click on the
\* hijacked button; msg is the commit-summary input
MessageInputs == {"", "fix"}
ClickButtonCapped(cap, msg) ==
  /\ ~unloaded
  /\ button.present /\ ~button.disabled /\ button.listeners # <<>>
  /\ LET e == button.listeners[1]
         info == ParseRepoInfo(url)
     IN IF info = NullInfo
        THEN /\ Len(notices) < MaxNotices
             /\ notices' = Append(notices, "alert:parse")
             /\ lastOp' = "click:noparse"
             /\ UNCHANGED <<commits, button>>
        ELSE /\ Len(commits) < cap
             /\ button' = [button EXCEPT !.disabled = TRUE, !.text = "Committing..."]
             /\ commits' = Append(commits,
                  StartCommit("button", e, info,
                              IF msg = "" THEN "Update file" ELSE msg,
                              GetValue(e), NoSha))
             /\ lastOp' = "click"
             /\ UNCHANGED notices
  /\ fetchWraps' = IF Len(commits') > Len(commits) /\ commits'[Len(commits')].stage # "rejected"
                   THEN InterceptGitHubFetch(1) ELSE fetchWraps
  /\ UNCHANGED <<langVars, variants, form, cachedAuthHeaders, nameVars, textarea, loaded, lifeVars, hij, unloaded, envVars, popTimers>>

ClickButton(msg) == ClickButtonCapped(MaxCommits, msg)

\* window.prompt answered (null when cancelled) and String.prototype.trim
PromptAnswers == {NullText, "", "  ", "fix", " fix "}
Trim(t) ==
  CASE t = "  " -> ""
    [] t = " fix " -> "fix"
    [] OTHER -> t

\* message?.trim() || null
PromptCommitMessage(answer) ==
  IF answer = NullText THEN NullText
  ELSE IF Trim(answer) = "" THEN NullText
  ELSE Trim(answer)

\* the run of the action with the prompt shown before the URL is parsed
CtrlSPromptFirst(cap, e, answer) ==
  /\ ~unloaded
  /\ editors[e].action /\ ~editors[e].disposed
  /\ LET info == ParseRepoInfo(url)
         message == PromptCommitMessage(answer)
     IN IF message = NullText
        THEN /\ lastOp' = "key:cancel"
             /\ UNCHANGED <<commits, notices>>
        ELSE IF info = NullInfo
        THEN /\ Len(notices) < MaxNotices
             /\ notices' = Append(notices, "toast:parse")
             /\ lastOp' = "key:noparse"
             /\ UNCHANGED commits
        ELSE /\ Len(commits) < cap
             /\ Len(notices) < MaxNotices
             /\ notices' = Append(notices, "toast:committing")
             /\ commits' = Append(commits,
                  StartCommit("key", e, info, message, editors[e].value, NoSha))
             /\ lastOp' = "key"
  /\ fetchWraps' = IF Len(commits') > Len(commits) /\ commits'[Len(commits')].stage # "rejected"
                   THEN InterceptGitHubFetch(1) ELSE fetchWraps
  /\ UNCHANGED <<langVars, variants, form, cachedAuthHeaders, nameVars, textarea, loaded, lifeVars, hij, button, unloaded, envVars, popTimers>>

\* commit-ui.ts: the run of the ghmonaco.commit action (Ctrl+S) of editor e
CtrlSCapped(cap, e, answer) ==
  /\ ~unloaded
  /\ editors[e].action /\ ~editors[e].disposed
  /\ LET info == ParseRepoInfo(url)
         message == PromptCommitMessage(answer)
     IN IF info = NullInfo
        THEN /\ Len(notices) < MaxNotices
             /\ notices' = Append(notices, "toast:parse")
             /\ lastOp' = "key:noparse"
             /\ UNCHANGED commits
        ELSE IF message = NullText
        THEN /\ lastOp' = "key:cancel"
             /\ UNCHANGED <<commits, notices>>
        ELSE /\ Len(commits) < cap
             /\ Len(notices) < MaxNotices
             /\ notices' = Append(notices, "toast:committing")
             /\ commits' = Append(commits,
                  StartCommit("key", e, info, message, editors[e].value, NoSha))
             /\ lastOp' = "key"
  /\ fetchWraps' = IF Len(commits') > Len(commits) /\ commits'[Len(commits')].stage # "rejected"
                   THEN InterceptGitHubFetch(1) ELSE fetchWraps
  /\ UNCHANGED <<langVars, variants, form, cachedAuthHeaders, nameVars, textarea, loaded, lifeVars, hij, button, unloaded, envVars, popTimers>>

CtrlS(e, answer) == CtrlSCapped(MaxCommits, e, answer)

\* commitFile after await getFileSha: the content is encoded and the PUT is sent
ShaDone(c, net) ==
  /\ ~unloaded
  /\ commits[c].stage = "sha"
  /\ LET r == commits[c]
     IN commits' = [commits EXCEPT ![c] =
          [r EXCEPT !.stage = IF EncodeThrows(r.content) THEN "rejected" ELSE "put",
                    !.looked = TRUE,
                    !.shaResp = GetResponse(r.info.path, net),
                    !.body = IF EncodeThrows(r.content) THEN NoBody
                             ELSE PutBody(r.info, r.message, r.content,
                                          GetFileSha(r.info, net))]]
  /\ lastOp' = IF GetResponse(commits[c].info.path, net).ok THEN "sha"
               ELSE "sha:failed"
  /\ fetchWraps' = IF commits'[c].stage = "put" THEN InterceptGitHubFetch(1) ELSE fetchWraps
  /\ UNCHANGED <<langVars, variants, form, cachedAuthHeaders, nameVars, textarea, loaded, lifeVars, hij, button, notices, unloaded, envVars,
                 popTimers>>

\* a commitFile that sends its PUT again when the PUT failed
PutDoneRetried(c, net) ==
  /\ ~unloaded
  /\ commits[c].stage = "put"
  /\ LET r == commits[c]
         ok == net = "ok" /\ ServerAccepts(r.info.path, r.body)
     IN /\ remote' = IF ok THEN [remote EXCEPT ![r.info.path] = Atob(r.body.content)]
                     ELSE remote
        /\ commits' = [commits EXCEPT ![c].success = ok,
                         ![c].stage = IF ~ok THEN "put"
                                      ELSE IF r.trigger = "key" THEN "redirect"
                                      ELSE "done"]
        /\ unloaded' = (ok /\ r.trigger = "button")
        /\ notices' = notices
        /\ button' = button
        /\ lastOp' = IF ok THEN "put:ok" ELSE "put:failed"
  /\ UNCHANGED <<langVars, variants, form, authVars, nameVars, textarea, loaded, lifeVars, hij, url, remoteEdits, popTimers>>

\* the PUT settles and the caller of commitFile goes on: the hijacked button
\* leaves the page on success and alerts and restores the button on failure;
\* Ctrl+S shows a toast and, on success, starts the 1 s redirect timer
PutDone(c, net) ==
  /\ ~unloaded
  /\ commits[c].stage = "put"
  /\ LET r == commits[c]
         ok == net = "ok" /\ ServerAccepts(r.info.path, r.body)
     IN /\ remote' = IF ok THEN [remote EXCEPT ![r.info.path] = Atob(r.body.content)]
                     ELSE remote
        /\ commits' = [commits EXCEPT ![c].success = ok,
                         ![c].stage = IF ok /\ r.trigger = "key" THEN "redirect"
                                      ELSE "done"]
        /\ unloaded' = (ok /\ r.trigger = "button")
        /\ notices' = IF r.trigger = "key"
                      THEN Append(notices, IF ok THEN "toast:committed" ELSE "toast:failed")
                      ELSE IF r.trigger = "button" /\ ~ok
                      THEN Append(notices, "alert:failed")
                      ELSE notices
        /\ button' = IF r.trigger = "button" /\ ~ok /\ ~r.detached /\ button.present
                     THEN [button EXCEPT !.disabled = FALSE, !.text = ButtonText]
                     ELSE button
        /\ lastOp' = IF ok THEN "put:ok" ELSE "put:failed"
  /\ UNCHANGED <<langVars, variants, form, authVars, nameVars, textarea, loaded, lifeVars, hij, url, remoteEdits, popTimers>>

\* commitFile called with its arguments given: the start of the call alone
CallCommitFile(info, message, content, optSha) ==
  /\ ~unloaded
  /\ Len(commits) < MaxCommits
  /\ commits' = Append(commits, StartCommit("call", 0, info, message, content, optSha))
  /\ lastOp' = "call"
  /\ fetchWraps' = IF Len(commits') > Len(commits) /\ commits'[Len(commits')].stage # "rejected"
                   THEN InterceptGitHubFetch(1) ELSE fetchWraps
  /\ UNCHANGED <<langVars, variants, form, cachedAuthHeaders, nameVars, textarea, loaded, lifeVars, hij, button, notices, unloaded, envVars,
                 popTimers>>

\* the 1 s timer of a successful Ctrl+S commit assigns window.location.href
RedirectTimer(c) ==
  /\ ~unloaded
  /\ commits[c].stage = "redirect"
  /\ commits' = [commits EXCEPT ![c].stage = "done"]
  /\ unloaded' = TRUE
  /\ lastOp' = "redirect"
  /\ UNCHANGED <<langVars, variants, form, authVars, nameVars, textarea, loaded, lifeVars, hij, button, notices, envVars, popTimers>>

\* ------------------------------------------------- language detection calls
\* a call of detectLanguage with the filename at hand
CallDetectLanguage ==
  /\ language = NoLanguage
  /\ language' = DetectLanguage(filename)
  /\ UNCHANGED <<filename, pageVars>>

\* a filename with one piece typed at its end, or its last piece deleted
OnePieceEdits(ps) ==
  {Append(ps, p) : p \in Pieces}
    \cup (IF ps = <<>> THEN {} ELSE {SubSeq(ps, 1, Len(ps) - 1)})

\* the filename input changes by one piece, typed at its end or deleted from it
FilenameChanges(ps) ==
  /\ language # NoLanguage
  /\ \/ Len(filename) < MaxPieces /\ \E p \in Pieces : ps = Append(filename, p)
     \/ filename # <<>> /\ ps = SubSeq(filename, 1, Len(filename) - 1)
  /\ filename' = ps
  /\ language' = NoLanguage
  /\ UNCHANGED pageVars

\* no detectLanguage call is followed
NoCall == filename = <<>> /\ language = NoLanguage

\* ---------------------------------------------------------- the host page
\* an SPA navigation changes the location
Navigate(u) ==
  /\ ~unloaded
  /\ u # url
  /\ url' = u
  /\ lastOp' = Other
  /\ UNCHANGED <<langVars, variants, form, authVars, nameVars, textarea, loaded, lifeVars, hij, button, commitVars, remote,
                 remoteEdits, popTimers>>

\* GitHub renders its editor: a container, possibly inside a wrapper
NativeAppears(testid, d, w) ==
  /\ ~unloaded
  /\ ~els["container"].present
  /\ els' = [e \in ElemIds |-> IF e = "container" THEN FreshEl(testid, d) ELSE w]
  /\ lastOp' = Other
  /\ UNCHANGED <<langVars, variants, form, authVars, nameVars, textarea, loaded, parentFlex, containers, editors, currentEditor,
                 currentDisposables, originalContent, initialized, pending,
                 hij, button, commitVars, envVars, popTimers>>

NativeRemoved ==
  /\ ~unloaded
  /\ els["container"].present
  /\ els' = [e \in ElemIds |-> AbsentEl]
  /\ lastOp' = Other
  /\ UNCHANGED <<langVars, variants, form, authVars, nameVars, textarea, loaded, parentFlex, containers, editors, currentEditor,
                 currentDisposables, originalContent, initialized, pending,
                 hij, button, commitVars, envVars, popTimers>>

\* GitHub renders or removes its commit button
ButtonAppears(disabled) ==
  /\ ~unloaded
  /\ ~button.present
  /\ button' = FreshButton(disabled)
  /\ lastOp' = Other
  /\ UNCHANGED <<langVars, variants, form, authVars, nameVars, textarea, loaded, lifeVars, hij, commitVars, envVars, popTimers>>

ButtonRemoved ==
  /\ ~unloaded
  /\ button.present
  /\ button' = NoButton
  /\ commits' = [c \in DOMAIN commits |->
        IF commits[c].trigger = "button" /\ commits[c].stage # "done"
        THEN [commits[c] EXCEPT !.detached = TRUE] ELSE commits[c]]
  /\ lastOp' = Other
  /\ UNCHANGED <<langVars, variants, form, authVars, nameVars, textarea, loaded, lifeVars, hij, notices, unloaded, envVars, popTimers>>

\* somebody else commits to a file
RemoteTexts == {"r1"}
RemoteEdit(p, t) ==
  /\ remoteEdits < MaxRemoteEdits
  /\ t # remote[p]
  /\ remote' = [remote EXCEPT ![p] = t]
  /\ remoteEdits' = remoteEdits + 1
  /\ lastOp' = Other
  /\ UNCHANGED <<langVars, variants, form, authVars, nameVars, textarea, loaded, url, lifeVars, hij, button, commitVars, popTimers>>

Wrappers == {AbsentEl, FreshEl(FALSE, "")}
Remote0 == [p \in Paths |-> IF p = "a.ts" THEN "r0" ELSE Absent]
InitEls == {[e \in ElemIds |-> AbsentEl]}
           \cup {[e \in ElemIds |-> IF e = "container" THEN FreshEl(t, d) ELSE w] :
                   t \in BOOLEAN, d \in DisplayVals, w \in Wrappers}

\* no call of the API client is followed
NoVariants == [fn |-> "none"]

InitModule(urls, buttons, remotes) ==
  /\ fetchWraps = 0
  /\ cachedAuthHeaders = FALSE
  /\ nameWatch = FALSE
  /\ form = NoForm
  /\ loaded = FALSE
  /\ url \in urls
  /\ els \in InitEls
  /\ parentFlex = FALSE
  /\ containers = 0
  /\ editors = <<>>
  /\ currentEditor = 0
  /\ currentDisposables = <<>>
  /\ originalContent = ""
  /\ initialized = FALSE
  /\ pending = {}
  /\ button \in buttons
  /\ hij = <<>>
  /\ commits = <<>>
  /\ notices = <<>>
  /\ remote \in remotes
  /\ remoteEdits = 0
  /\ unloaded = FALSE
  /\ popTimers = 0
  /\ lastOp = Other

\* the state after construction, on any page
InitPage(urls, buttons, remotes) ==
  /\ variants = NoVariants
  /\ InitModule(urls, buttons, remotes)

\* a page without a filename input
InitIn(urls, buttons, remotes) ==
  /\ nameInput = NoInput
  /\ InitPage(urls, buttons, remotes)

EditorIds == 1..Len(editors)

\* the content script's handlers and the continuation of an injection
Lifecycle ==
  \/ InitialAttempt
  \/ \E added \in BOOLEAN : PageMutation(added)
  \/ TurboLoad
  \/ Popstate
  \/ PopstateTimer
  \/ \E i \in EditorIds, net \in NetOutcomes : FetchDone(i, net)

\* the timers and the observer an injection leaves behind
Timers ==
  \/ \E i \in EditorIds : PollTimer(i)
  \/ \E i \in EditorIds : HijackObserver(i)
  \/ \E i \in EditorIds : ObserverTimeout(i)
  \/ \E i \in EditorIds : EnableTimer(i)

\* the host page, the user and the rest of the world
Page(urls) ==
  \/ \E u \in urls : Navigate(u)
  \/ \E t \in BOOLEAN, d \in DisplayVals, w \in Wrappers : NativeAppears(t, d, w)
  \/ NativeRemoved

\* GitHub rendering its commit button late, or again
Buttons ==
  \/ \E disabled \in BOOLEAN : ButtonAppears(disabled)
  \/ ButtonRemoved

World ==
  \/ \E e \in EditorIds, t \in TypedTexts \cup {originalContent} : UserType(e, t)
  \/ \E t \in RemoteTexts : RemoteEdit("a.ts", t)

Committing(msgs, answers) ==
  \/ \E msg \in msgs : ClickButton(msg)
  \/ \E e \in EditorIds, a \in answers : CtrlS(e, a)
  \/ \E c \in DOMAIN commits, net \in NetOutcomes : ShaDone(c, net)
  \/ \E c \in DOMAIN commits, net \in NetOutcomes : PutDone(c, net)
  \/ \E c \in DOMAIN commits : RedirectTimer(c)

\* The editor lifecycle: every action that writes a variable the lifecycle
\* handlers read, on a page that shows its commit button throughout.
LifeUrls == {UrlEditA, UrlUpload, UrlBlob}
InitLife == InitIn(LifeUrls, {FreshButton(TRUE)}, {Remote0}) /\ NoCall /\ textarea = NoTextarea
LifeNext == Lifecycle \/ Page(LifeUrls)
SpecLife == InitLife /\ [][LifeNext]_vars

\* Teardown called again: the lifecycle, with cleanup and disposeMonacoEditor
\* called once more after a teardown or before any injection.
TeardownNext == LifeNext \/ CallCleanup \/ CallDisposeMonacoEditor
SpecTeardown == InitLife /\ [][TeardownNext]_vars

\* Commits: the lifecycle on a page that shows GitHub's editor and commit
\* button, the user typing and committing, and the remote changing.
CommitUrls == {UrlEditA, UrlEditB, UrlBlob}
InitCommit ==
  /\ InitIn({UrlEditA}, {FreshButton(TRUE)}, {Remote0})
  /\ els["container"] = FreshEl(FALSE, "")
  /\ els["wrapper"] = AbsentEl
  /\ NoCall /\ textarea = NoTextarea
CommitNext ==
  \/ InitialAttempt
  \/ \E added \in BOOLEAN : PageMutation(added)
  \/ TurboLoad
  \/ \E i \in EditorIds, net \in NetOutcomes : FetchDone(i, net)
  \/ \E u \in CommitUrls : Navigate(u)
  \/ World
  \/ Committing({"fix"}, {NullText, "fix"})
SpecCommit == InitCommit /\ [][CommitNext]_vars

\* commitFile on its own: called with every locator, text and SHA option,
\* against every remote, with every answer of the network.
ApiInfos == {ParseRepoInfo(u) : u \in {UrlEditA, UrlEditB, UrlNew}}
ApiRemotes == [Paths -> {Absent, "r0"}]
InitApi ==
  /\ InitIn({UrlBlob}, {NoButton}, ApiRemotes) /\ els = [e \in ElemIds |-> AbsentEl]
  /\ NoCall /\ textarea = NoTextarea
ApiNext ==
  \/ \E info \in ApiInfos, m \in {"Update file", "fix"},
        t \in {"", "typed", LoneSurrogate},
        o \in {NoSha, Sha("r0")} : CallCommitFile(info, m, t, o)
  \/ \E c \in DOMAIN commits, net \in NetOutcomes : ShaDone(c, net)
  \/ \E c \in DOMAIN commits, net \in NetOutcomes : PutDone(c, net)
  \/ \E p \in Paths, t \in RemoteTexts : RemoteEdit(p, t)
SpecApi == InitApi /\ [][ApiNext]_vars

\* The commit button: an injection on an edit page whose button comes and
\* goes, with the polling, the observer and the timers hijackCommitButton and
\* the injection leave behind.
InitButton ==
  /\ InitIn({UrlEditA}, {NoButton, FreshButton(TRUE)}, {Remote0})
  /\ els["container"] = FreshEl(FALSE, "")
  /\ els["wrapper"] = AbsentEl
  /\ NoCall /\ textarea = NoTextarea
ButtonNext ==
  \/ InitialAttempt
  \/ \E i \in EditorIds, net \in NetOutcomes : FetchDone(i, net)
  \/ Timers
  \/ Buttons
  \/ \E e \in EditorIds, t \in TypedTexts \cup {originalContent} : UserType(e, t)
  \/ \E msg \in MessageInputs : ClickButton(msg)
  \/ \E c \in DOMAIN commits, net \in NetOutcomes : ShaDone(c, net)
  \/ \E c \in DOMAIN commits, net \in NetOutcomes : PutDone(c, net)
SpecButton == InitButton /\ [][ButtonNext]_vars

\* Enabling the commit button: an injection on an edit page whose button comes
\* and goes, enabled or disabled as GitHub renders it, the 500 ms timer, the
\* observer that hijacks a late button, the user typing and clicking.
EnableNext ==
  \/ InitialAttempt
  \/ \E i \in EditorIds, net \in NetOutcomes : FetchDone(i, net)
  \/ \E i \in EditorIds : EnableTimer(i)
  \/ \E i \in EditorIds : HijackObserver(i)
  \/ Buttons
  \/ \E e \in EditorIds, t \in TypedTexts \cup {originalContent} : UserType(e, t)
  \/ \E msg \in MessageInputs : ClickButton(msg)
  \/ \E c \in DOMAIN commits, net \in NetOutcomes : ShaDone(c, net)
  \/ \E c \in DOMAIN commits, net \in NetOutcomes : PutDone(c, net)
SpecEnable == InitButton /\ [][EnableNext]_vars

\* Discovery of the commit button: one injection, hence one hijackCommitButton
\* call, on a page whose button comes and goes. The 200 ms timer of tryFind
\* and the 30 s timer that disconnects the observer fire once they are set.
PollNext ==
  \/ InitialAttempt
  \/ \E i \in EditorIds, net \in NetOutcomes : FetchDone(i, net)
  \/ Timers
  \/ Buttons
SpecPoll == InitButton /\ [][PollNext]_vars
FairPoll ==
  /\ SpecPoll
  /\ WF_vars(\E i \in EditorIds : PollTimer(i))
  /\ WF_vars(\E i \in EditorIds : ObserverTimeout(i))

\* Commit triggers that may overlap: one edit page with its injection, the
\* user typing, pressing Ctrl+S and clicking the hijacked button while
\* earlier commits are still in flight, and leaving the edit page.
TriggerUrls == {UrlEditA, UrlBlob}
TriggerNext ==
  \/ InitialAttempt
  \/ \E i \in EditorIds, net \in NetOutcomes : FetchDone(i, net)
  \/ \E i \in EditorIds : EnableTimer(i)
  \/ \E u \in TriggerUrls : Navigate(u)
  \/ \E e \in EditorIds, t \in TypedTexts \cup {originalContent} : UserType(e, t)
  \/ \E msg \in MessageInputs : ClickButtonCapped(MaxTriggers, msg)
  \/ \E e \in EditorIds, a \in PromptAnswers : CtrlSCapped(MaxTriggers, e, a)
  \/ \E c \in DOMAIN commits, net \in NetOutcomes : ShaDone(c, net)
  \/ \E c \in DOMAIN commits, net \in NetOutcomes : PutDone(c, net)
  \/ \E c \in DOMAIN commits : RedirectTimer(c)
SpecTrigger == InitCommit /\ [][TriggerNext]_vars

\* Saving: the lifecycle on an edit page and on the upload page (an edit page
\* whose URL parseRepoInfo does not parse), the user typing, pressing Ctrl+S
\* with every answer to the prompt and clicking the hijacked button, and every
\* answer of the network.
SaveUrls == {UrlEditA, UrlUpload}
SaveNext ==
  \/ InitialAttempt
  \/ \E added \in BOOLEAN : PageMutation(added)
  \/ TurboLoad
  \/ \E i \in EditorIds, net \in NetOutcomes : FetchDone(i, net)
  \/ \E i \in EditorIds : EnableTimer(i)
  \/ \E u \in SaveUrls : Navigate(u)
  \/ \E e \in EditorIds, t \in TypedTexts \cup {originalContent} : UserType(e, t)
  \/ Committing(MessageInputs, PromptAnswers)
SpecSave == InitCommit /\ [][SaveNext]_vars

\* The mirror: an edit page whose native editor is a textarea holding the
\* file's text, the user typing, and navigation away and back.
MirrorUrls == {UrlEditA, UrlBlob}
InitMirror ==
  /\ InitIn({UrlEditA}, {FreshButton(TRUE)}, {Remote0})
  /\ els["container"] = FreshEl(FALSE, "")
  /\ els["wrapper"] = AbsentEl
  /\ filename = <<>> /\ language = NoLanguage
  /\ textarea \in {NoTextarea, [present |-> TRUE, value |-> "r0"]}
MirrorNext ==
  \/ InitialAttempt
  \/ \E added \in BOOLEAN : PageMutation(added)
  \/ TurboLoad
  \/ \E i \in EditorIds, net \in NetOutcomes : FetchDone(i, net)
  \/ \E u \in MirrorUrls : Navigate(u)
  \/ \E e \in EditorIds, t \in TypedTexts \cup {originalContent} : UserType(e, t)
SpecMirror == InitMirror /\ [][MirrorNext]_vars

\* detectLanguage on its own: called with every filename of up to MaxPieces
\* pieces.
InitLang ==
  /\ InitIn({UrlBlob}, {NoButton}, {Remote0}) /\ els = [e \in ElemIds |-> AbsentEl]
  /\ filename \in Filenames
  /\ language = NoLanguage
  /\ textarea = NoTextarea
LangNext ==
  \/ CallDetectLanguage
  \/ \E ps \in OnePieceEdits(filename) : FilenameChanges(ps)
SpecLang == InitLang /\ [][LangNext]_vars

\* ================================================================ properties
Hidden(el) == el.present /\ el.display # el.prior
Undisposed == {e \in EditorIds : ~editors[e].disposed}

C2RestoredAfterTeardown ==
  lastOp = "cleanup" => \A e \in ElemIds : ~Hidden(els[e])

\* C5: a failed activation (no editor detected, or no repository info in the
\* URL) hides and inserts nothing, creates no editor and leaves initialized
\* false; and as long as no editor was ever created the native editor has the
\* display the page gave it.
C5FailedActivationTouchesNothing ==
  /\ [](editors = <<>> =>
          /\ containers = 0 /\ ~initialized /\ ~parentFlex
          /\ \A e \in ElemIds : ~Hidden(els[e]))
  /\ [][lastOp' \in {"try:nodetect", "try:noparse"} =>
          /\ ~initialized'
          /\ UNCHANGED <<els, parentFlex, containers, editors, currentEditor,
                         currentDisposables, pending>>]_vars

\* an attempt on a page that shows an editor but whose URL does not parse
C5Witness ==
  /\ lastOp = "try:noparse" /\ els["container"].present
  /\ ~Hidden(els["container"]) /\ containers = 0 /\ ~initialized

\* C6: when the fetch of an injection settles after its editor was disposed,
\* the continuation is ignored: no method is called on the disposed editor,
\* nothing is added to currentDisposables, the commit button is not hijacked
\* and initialized does not become true.
C6StaleContinuationIgnored ==
  [][\A i \in EditorIds :
       (i \in pending /\ i \notin pending' /\ editors[i].disposed) =>
          /\ ~editors'[i].staleUse
          /\ currentDisposables' = currentDisposables
          /\ button' = button
          /\ initialized' = initialized]_vars

Sent(c) == commits[c].stage \in {"put", "redirect", "done"}

\* C3 as stated: a commit of a new file sends no sha, and a commit to a path
\* that exists on the remote sends the blob SHA of that file.
C3ShaWheneverFileExists ==
  /\ [](\A c \in DOMAIN commits :
          (Sent(c) /\ commits[c].optSha = NoSha
             /\ (~commits[c].looked \/ commits[c].shaResp.sha = NoSha))
          => commits[c].body.sha = NoSha)
  /\ [][\A c \in DOMAIN commits :
          (commits[c].stage = "sha" /\ commits'[c].stage = "put"
             /\ remote[commits[c].info.path] # Absent)
          => commits'[c].body.sha = Sha(remote[commits[c].info.path])]_vars

\* C3 amended: the SHA lookup is made exactly when no sha was given and the
\* path is not empty; the PUT carries the given sha, or else the sha of a
\* lookup answered 2xx with one, and no sha field in every other case (no
\* lookup, a lookup that failed, was not 2xx or had no sha).
C3ShaFromSuccessfulLookup ==
  \A c \in DOMAIN commits : Sent(c) =>
    LET r == commits[c] IN
    /\ r.looked <=> (r.optSha = NoSha /\ r.info.path # "")
    /\ r.optSha # NoSha => r.body.sha = r.optSha
    /\ (r.looked /\ r.shaResp.ok) => r.body.sha = r.shaResp.sha
    /\ (r.optSha = NoSha /\ ~(r.looked /\ r.shaResp.ok)) => r.body.sha = NoSha

\* a PUT that carries the SHA the lookup fetched
C3Witness ==
  \E c \in DOMAIN commits :
    /\ Sent(c) /\ commits[c].looked /\ commits[c].shaResp.ok
    /\ commits[c].body.sha = Sha("r0")

\* C4: every failure is surfaced to the user as a toast or an alert: a file
\* GET, SHA GET or PUT that fails or is not 2xx, and a URL that does not parse.
C4FailuresSurfaced ==
  [][lastOp' \in {"fetch:failed", "sha:failed", "put:failed", "try:noparse",
                  "click:noparse", "key:noparse"}
       => Len(notices') = Len(notices) + 1]_vars

\* C7: the locator a commit's PUT uses is the locator the content of the
\* committed editor was fetched with.
C7LocatorFixed ==
  \A c \in DOMAIN commits :
    commits[c].editor # 0 => commits[c].info = editors[commits[c].editor].info

\* C8: a commit is accepted only if the remote file is still the one the
\* editor loaded: a change made by somebody else in between makes it fail.
C8ConflictDetected ==
  [][\A c \in DOMAIN commits :
       LET r == commits[c] IN
       (r.stage = "put" /\ commits'[c].success /\ r.editor # 0
          /\ r.info = editors[r.editor].info
          /\ editors[r.editor].content # NullText)
       => remote[r.info.path] = editors[r.editor].content]_vars

\* C9: a commit started by the hijacked button or by Ctrl+S takes the text of
\* the editor shown on the page at that moment.
C9CommitsShownText ==
  [][(Len(commits') > Len(commits) /\ currentEditor # 0)
       => commits'[Len(commits')].content = editors[currentEditor].value]_vars

\* what C10 promises for a filename the exact-filename table does not match:
\* the tag of its extension (the text after the last '.' of the part after the
\* last '/', lowercased) when that is a key of the extension table, and
\* 'plaintext' when it is not or there is no '.'
ExactFilenameMatch(ps) ==
  \/ Join(ps) \in DOMAIN FILENAME_MAP
  \/ Join(SubSeq(ps, LastIndexOf(ps, "/") + 1, Len(ps))) \in DOMAIN FILENAME_MAP
TagByExtension(ps) ==
  LET base == SubSeq(ps, LastIndexOf(ps, "/") + 1, Len(ps))
      dot == LastIndexOf(base, ".")
      ext == LowerJoin(SubSeq(base, dot + 1, Len(base)))
  IN IF dot # 0 /\ ext \in DOMAIN EXTENSION_MAP THEN EXTENSION_MAP[ext]
     ELSE "plaintext"

\* C10: for every filename the exact-filename table does not match,
\* detectLanguage returns the extension table's tag for the extension when the
\* extension is a key of the table, and 'plaintext' otherwise.
C10ExtensionDecides ==
  (language # NoLanguage /\ ~ExactFilenameMatch(filename))
    => language = TagByExtension(filename)

\* the key of the exact-filename table a filename matches: the full name, or
\* else the part after its last '/'
ExactKey(ps) ==
  IF Join(ps) \in DOMAIN FILENAME_MAP THEN Join(ps)
  ELSE Join(SubSeq(ps, LastIndexOf(ps, "/") + 1, Len(ps)))

\* C11: when the full filename or the part after its last '/' is a key of the
\* exact-filename table, detectLanguage returns that key's tag, whatever the
\* extension is.
C11ExactFilenameWins ==
  (language # NoLanguage /\ ExactFilenameMatch(filename))
    => language = FILENAME_MAP[ExactKey(filename)]

\* go.sum was looked up (an exact name with an extension, tag plaintext) or
\* Makefile inside a directory
C11Witness ==
  \/ filename = <<"go", ".", "sum">> /\ language = "plaintext"
  \/ filename = <<"app", "/", "Makefile">> /\ language = "makefile"

\* the tags detectLanguage is documented to return
Tags == {"plaintext"} \cup {EXTENSION_MAP[k] : k \in DOMAIN EXTENSION_MAP}
                      \cup {FILENAME_MAP[k] : k \in DOMAIN FILENAME_MAP}

\* C12: for every input detectLanguage returns a string that is 'plaintext'
\* or one of the tags of the two tables.
C12AlwaysATag == language # NoLanguage => language \in Tags

\* C13: when the fetch of an injection succeeds, the step that settles it
\* sets originalContent to the fetched text and leaves the editor of that
\* injection showing exactly that text: content and baseline are equal.
C13BaselineIsLoadedText ==
  [][\A i \in EditorIds :
       (i \in pending /\ i \notin pending' /\ lastOp' = "fetch:loaded")
       => /\ originalContent' = editors'[i].content
          /\ (IF editors'[i].disposed THEN "" ELSE editors'[i].value)
               = originalContent']_vars

\* C16: on an edit page whose URL parses, initialized is never true while
\* there is no editor container (nothing would inject one any more).
C16EditorStaysAvailable ==
  (IsEditPage(url) /\ ParseRepoInfo(url) # NullInfo /\ initialized)
    => (containers = 1 /\ currentEditor # 0)

\* C18: a call of injectMonacoEditor that finds the container changes no
\* element, creates no editor, starts no fetch, registers no commit action
\* and no button hijack, and returns the existing editor.
C18ExistingContainerNoEffect ==
  [][lastOp' = "try:existing" =>
       /\ UNCHANGED <<els, parentFlex, containers, editors, currentEditor,
                      currentDisposables, originalContent, pending, hij,
                      button, commits>>
       /\ currentEditor # 0 /\ ~editors[currentEditor].disposed
       /\ initialized']_vars

\* a second attempt found the container while the first fetch was pending
C18Witness ==
  lastOp = "try:existing" /\ containers = 1 /\ pending = {1} /\ initialized

\* C14: a teardown called a second time in a row, or when no editor was ever
\* injected, changes neither the DOM nor the module state: currentEditor
\* stays null, currentDisposables empty, no container, initialized false.
C14TeardownIdempotent ==
  [][lastOp' \in {"dispose", "cleanup:noop"} =>
       /\ UNCHANGED lifeVars
       /\ currentEditor' = 0 /\ currentDisposables' = <<>>
       /\ containers' = 0 /\ ~initialized']_vars

\* disposeMonacoEditor called again after an editor was torn down
C14Witness ==
  lastOp = "dispose" /\ editors # <<>> /\ editors[1].disposed /\ containers = 0

\* C15: when a page mutation, a turbo:load or a popstate timer is handled on
\* a page that is no edit page while an editor is injected, the editor is
\* disposed, the container removed and initialized false afterwards, also
\* when the injection's fetch is still pending.
C15DestroyedOnLeaving ==
  [][((TurboLoad \/ PopstateTimer \/ \E added \in BOOLEAN : PageMutation(added))
        /\ ~IsEditPage(url) /\ currentEditor # 0)
       => /\ editors'[currentEditor].disposed
          /\ currentEditor' = 0 /\ containers' = 0 /\ ~initialized']_vars

\* C17: after cleanup nothing the torn-down injection installed is left: no
\* resize listener or ResizeObserver, no polling timer, no mutation observer
\* of hijackCommitButton, no interceptCommit listener on the commit button.
C17NothingLeftInstalled ==
  lastOp = "cleanup" =>
    \A i \in EditorIds : editors[i].disposed =>
      /\ ~editors[i].resize
      /\ ~hij[i].polling /\ ~hij[i].observing
      /\ i \notin Range(button.listeners)

\* C19: when a textarea was detected, from the moment the editor is writable
\* the textarea holds the editor's content, and every content change writes
\* the textarea and dispatches its input and change events.
C19TextareaMirrorsEditor ==
  /\ [](\A e \in EditorIds :
          (~editors[e].disposed /\ ~editors[e].readOnly /\ editors[e].textarea)
          => textarea.value = editors[e].value)
  /\ [][\A e \in EditorIds :
          (~editors[e].readOnly /\ editors[e].textarea
             /\ editors'[e].value # editors[e].value)
          => (lastOp' = "type:mirrored" /\ textarea'.value = editors'[e].value)]_vars


\* C20: discovery of the commit button is bounded. One hijackCommitButton call
\* makes at most maxAttempts (50) polling attempts; a timer is pending only
\* while fewer than maxAttempts attempts were made; the attempt that finds the
\* button schedules no further timer; once polling has stopped it never
\* resumes and the count stays; a disconnected observer stays disconnected;
\* and, the timers firing, eventually neither the poll nor the observer of
\* any call is left, so no further hijack attempt is made.
C20DiscoveryBounded ==
  /\ [](\A i \in EditorIds :
          /\ hij[i].attempts <= maxAttempts
          /\ hij[i].polling => hij[i].attempts < maxAttempts)
  /\ [][\A i \in EditorIds :
          /\ (~hij[i].wired /\ hij'[i].wired)
               => /\ hij'[i].attempts = 1
                  /\ FindCommitButton(button) => ~hij'[i].polling
          /\ (hij[i].wired /\ hij'[i].attempts # hij[i].attempts)
               => /\ hij[i].polling
                  /\ hij'[i].attempts = hij[i].attempts + 1
                  /\ FindCommitButton(button) => ~hij'[i].polling
          /\ (hij[i].wired /\ ~hij[i].polling) => ~hij'[i].polling
          /\ (hij[i].wired /\ ~hij[i].observing) => ~hij'[i].observing]_vars
  /\ <>[](\A i \in EditorIds : ~hij[i].polling /\ ~hij[i].observing)

\* the button never showed up: the 50th attempt gave up, the observer is
\* disconnected and the button is still not hijacked
C20Witness ==
  /\ editors # <<>> /\ hij[1].wired
  /\ hij[1].attempts = maxAttempts /\ ~hij[1].polling /\ ~hij[1].observing
  /\ ~button.present

\* C22: the initialized flag agrees with the page. Whenever initialized is
\* true the Monaco container is in the document and currentEditor is a
\* non-null, undisposed editor; whenever initialized is false and no injection
\* is in flight, no Monaco container exists.
C22FlagAgreesWithPage ==
  /\ initialized =>
       /\ containers >= 1
       /\ currentEditor # 0 /\ ~editors[currentEditor].disposed
  /\ (~initialized /\ pending = {}) => containers = 0

\* C23: the baseline belongs to the current editor. Whenever no fetch is
\* pending and an editor is on the page, originalContent is the text that was
\* loaded into that editor ('' when its load returned null); and a fetch that
\* completes for an earlier injection leaves the baseline as it is.
LoadedText(e) == IF editors[e].content = NullText THEN "" ELSE editors[e].content
C23BaselineOfCurrentEditor ==
  /\ []((pending = {} /\ currentEditor # 0 /\ ~editors[currentEditor].disposed)
          => originalContent = LoadedText(currentEditor))
  /\ [][\A i \in EditorIds :
          (i \in pending /\ i \notin pending' /\ currentEditor # 0 /\ i < currentEditor)
          => originalContent' = originalContent]_vars

\* C25: an editor is read-only and shows the placeholder from its creation
\* until getFileContent settles, and right after that it is writable in both
\* outcomes: with the fetched text, or with '' and an empty baseline when the
\* fetch returned null.
C25ReadOnlyUntilLoaded ==
  /\ [](\A i \in EditorIds :
          i \in pending => editors[i].readOnly /\ editors[i].value = Placeholder)
  /\ [][\A i \in EditorIds :
          (i \in pending /\ i \notin pending')
          => /\ ~editors'[i].readOnly
             /\ editors'[i].content # NullText
                  => editors'[i].value = editors'[i].content
             /\ editors'[i].content = NullText
                  => editors'[i].value = "" /\ originalContent' = ""]_vars

\* C21: no HTTP request is retried. A commit trigger starts one commitFile
\* call; a call never goes back to its SHA GET or from its result to its PUT;
\* every answer to a SHA GET or to a PUT, whatever it is, leaves one request
\* fewer of that kind in flight; and every answer to a content GET ends that
\* injection's only GET, which is never issued again.
InStage(cs, st) == {c \in DOMAIN cs : cs[c].stage = st}
C21NoRequestRetried ==
  [][/\ Len(commits') <= Len(commits) + 1
     /\ \A c \in DOMAIN commits :
          /\ commits'[c].stage = "sha" => commits[c].stage = "sha"
          /\ commits'[c].stage = "put" => commits[c].stage \in {"sha", "put"}
     /\ lastOp' \in {"sha", "sha:failed"} =>
          Cardinality(InStage(commits', "sha")) = Cardinality(InStage(commits, "sha")) - 1
     /\ lastOp' \in {"put:ok", "put:failed"} =>
          Cardinality(InStage(commits', "put")) = Cardinality(InStage(commits, "put")) - 1
     /\ lastOp' \in {"fetch:loaded", "fetch:empty", "fetch:failed"} =>
          Cardinality(pending') = Cardinality(pending) - 1
     /\ \A i \in EditorIds : i \notin pending => i \notin pending']_vars

\* every request of one commit failed, after a content GET that failed too
C21Witness ==
  /\ lastOp = "put:failed"
  /\ commits[1].stage = "done" /\ commits[1].looked
  /\ ~commits[1].shaResp.ok /\ ~commits[1].success
  /\ editors[1].content = NullText /\ pending = {}

\* C27: at most one commit is in flight at a time. While a commitFile call
\* started by Ctrl+S or by the hijacked button has not completed, and after a
\* success until the redirect happens, no second call is started.
InFlight == {c \in DOMAIN commits : commits[c].stage \in {"sha", "put", "redirect"}}
C27OneCommitInFlight ==
  [][Len(commits') > Len(commits) => InFlight = {}]_vars

\* C28: a Ctrl+S commit that the user cancels, or whose message is empty or
\* only whitespace, issues no request, shows no notification and causes no
\* navigation; when the URL cannot be parsed the user is not prompted (the
\* run ends before the prompt, whatever would have been answered) and no
\* request is issued.
C28CancelledSaveDoesNothing ==
  [][/\ lastOp' = "key:cancel" =>
          /\ UNCHANGED <<commits, notices, unloaded, url, remote, button, lifeVars>>
          /\ ParseRepoInfo(url) # NullInfo
     /\ lastOp' = "key" => ParseRepoInfo(url) # NullInfo
     /\ lastOp' = "key:noparse" =>
          /\ ParseRepoInfo(url) = NullInfo
          /\ UNCHANGED <<commits, unloaded, url, remote>>]_vars

\* the user cancelled a Ctrl+S on a loaded editor: nothing was requested or
\* shown
C28Witness ==
  /\ lastOp = "key:cancel"
  /\ commits = <<>> /\ notices = <<>> /\ ~unloaded
  /\ editors[1].action

\* C29: when a commit started by the hijacked button fails, the user gets an
\* alert with the error, the button is enabled again with the text it had
\* before the click and the page stays; when it succeeds the page navigates
\* away, and from the click until then the button is never enabled again.
ButtonCommits == {c \in DOMAIN commits : commits[c].trigger = "button"}
C29ButtonRestoredOnFailureOnly ==
  /\ [](\A c \in ButtonCommits :
          (commits[c].stage \in {"sha", "put"} /\ button.present /\ ~unloaded)
          => button.disabled)
  /\ [][\A c \in ButtonCommits :
          (commits[c].stage = "put" /\ commits'[c].stage = "done")
          => IF commits'[c].success
             THEN unloaded'
             ELSE /\ ~unloaded'
                  /\ notices' = Append(notices, "alert:failed")
                  /\ button.present =>
                       ~button'.disabled /\ button'.text = ButtonText]_vars

\* C26: no PUT ever carries the loading placeholder as its content. In every
\* interleaving no commit is started with the placeholder, no PUT body
\* encodes it, and the Ctrl+S action and the button hijack of an editor are
\* active only once that editor's GET has settled and its value is no longer
\* the placeholder.
C26PlaceholderNeverCommitted ==
  /\ \A c \in DOMAIN commits :
       /\ commits[c].content # Placeholder
       /\ commits[c].body # NoBody => commits[c].body.content # Btoa(Placeholder)
  /\ \A e \in EditorIds :
       (editors[e].action \/ hij[e].wired \/ e \in Range(button.listeners))
       => e \notin pending /\ GetValue(e) # Placeholder

\* a click on the button hijacked for the first editor, made while the second
\* editor still shows the placeholder: the PUT carries the first getter's text
C26Witness ==
  /\ Len(editors) = 2 /\ 2 \in pending /\ editors[2].value = Placeholder
  /\ commits # <<>> /\ commits[1].trigger = "button" /\ commits[1].editor = 1
  /\ commits[1].stage = "done"

\* C24 as stated: after every change of an editor's content, the load included,
\* a commit button that is there is disabled exactly when the content equals
\* originalContent.
C24DisabledIffUnchanged ==
  [][\A e \in EditorIds :
       (editors'[e].value # editors[e].value /\ button'.present)
       => button'.disabled = (editors'[e].value = originalContent')]_vars

\* C24, amended: after every change made to the content of a loaded editor
\* (every change its onDidChangeModelContent handler sees), and when the 500 ms
\* timer of the injection fires, a commit button that is there is disabled
\* exactly when the content equals originalContent; the load itself does not
\* touch the button.
C24DisabledIffUnchangedAfterEdit ==
  [][\A e \in EditorIds :
       /\ (~editors[e].readOnly /\ editors'[e].value # editors[e].value
             /\ button'.present)
          => button'.disabled = (editors'[e].value = originalContent')
       /\ (hij[e].btnTimer /\ ~hij'[e].btnTimer /\ button'.present)
          => button'.disabled = (GetValue(e) = originalContent)
       /\ (editors[e].readOnly /\ ~editors'[e].readOnly)
          => button'.disabled = button.disabled]_vars

\* the user typed and then restored the loaded text: the button, which typing
\* had enabled and a click had since left enabled after a failed commit, is
\* disabled again
C24Witness ==
  /\ button.present /\ button.disabled /\ button.hijacked
  /\ ~editors[1].readOnly /\ editors[1].value = originalContent
  /\ originalContent = "r0"
  /\ commits # <<>> /\ commits[1].stage = "done" /\ ~commits[1].success
  /\ commits[1].content = "typed"

\* C30: commitFile never rejects, and it resolves to success:true exactly when
\* the PUT was answered 2xx and to success:false otherwise (the error text of
\* the result is not represented).
C30CommitFileNeverRejects ==
  /\ [](\A c \in DOMAIN commits : commits[c].stage # "rejected")
  /\ [][\A c \in DOMAIN commits :
          (commits[c].stage = "put" /\ commits'[c].stage # "put")
          => commits'[c].success = (lastOp' = "put:ok")]_vars

\* ------------------------------------------------------ the fetch interceptor
\* code of the page calls window.fetch for api.github.com with an Authorization
\* header of its own: every wrapper installed so far sees the call and the
\* header is kept in cachedAuthHeaders
PageFetch ==
  /\ ~unloaded
  /\ fetchWraps > 0 /\ ~cachedAuthHeaders
  /\ cachedAuthHeaders' = TRUE
  /\ lastOp' = "page:fetch"
  /\ UNCHANGED <<langVars, variants, form, fetchWraps, nameVars, textarea, loaded, lifeVars, hij,
                 button, commitVars, envVars, popTimers>>

\* commitFile called on its own while the page makes authorized requests
AuthNext == ApiNext \/ PageFetch
SpecAuth == InitApi /\ [][AuthNext]_vars

\* C31: window.fetch is wrapped by interceptGitHubFetch at most once, however
\* many requests githubApiFetch makes and whether or not an Authorization
\* header was captured.
C31InterceptorInstalledOnce == fetchWraps <= 1

\* ------------------------------------------------------- hijacking, repeated
\* GitHub renders its commit form anew, with a fresh button in it
FormRendered(disabled) ==
  /\ ~unloaded
  /\ form # FreshForm \/ button # FreshButton(disabled)
  /\ form' = FreshForm
  /\ button' = FreshButton(disabled)
  /\ commits' = [c \in DOMAIN commits |->
        IF commits[c].trigger = "button" /\ commits[c].stage # "done"
        THEN [commits[c] EXCEPT !.detached = TRUE] ELSE commits[c]]
  /\ lastOp' = Other
  /\ UNCHANGED <<langVars, variants, authVars, nameVars, textarea, loaded, lifeVars, hij,
                 notices, unloaded, envVars, popTimers>>

\* Hijacking again and again: one injection on an edit page, its
\* hijackCommitButton call with its polling and its observer, while GitHub
\* renders its commit form and its button late and anew and the user clicks
\* the button.
HijackNext ==
  \/ InitialAttempt
  \/ \E i \in EditorIds, net \in NetOutcomes : FetchDone(i, net)
  \/ \E i \in EditorIds : PollTimer(i)
  \/ \E i \in EditorIds : HijackObserver(i)
  \/ \E i \in EditorIds : ObserverTimeout(i)
  \/ Buttons
  \/ \E disabled \in BOOLEAN : FormRendered(disabled)
  \/ ClickButton("fix")
  \/ \E c \in DOMAIN commits, net \in NetOutcomes : ShaDone(c, net)
  \/ \E c \in DOMAIN commits, net \in NetOutcomes : PutDone(c, net)
SpecHijack == InitButton /\ [][HijackNext]_vars

\* Hijacking by a second injection: the user leaves the edit page and comes
\* back, so that hijackCommitButton is called again, for another editor, on a
\* page that shows the button the first call hijacked or a later one.
RehijackUrls == {UrlEditA, UrlBlob}
RehijackNext ==
  \/ InitialAttempt
  \/ \E added \in BOOLEAN : PageMutation(added)
  \/ \E i \in EditorIds, net \in NetOutcomes : FetchDone(i, net)
  \/ \E u \in RehijackUrls : Navigate(u)
  \/ \E i \in EditorIds : HijackObserver(i)
  \/ \E i \in EditorIds : ObserverTimeout(i)
  \/ \E disabled \in BOOLEAN : FormRendered(disabled)
  \/ \E msg \in MessageInputs : ClickButton(msg)
  \/ \E c \in DOMAIN commits, net \in NetOutcomes : ShaDone(c, net)
  \/ \E c \in DOMAIN commits, net \in NetOutcomes : PutDone(c, net)
SpecRehijack == InitCommit /\ [][RehijackNext]_vars

\* C32: however many polling attempts, observer callbacks and
\* hijackCommitButton calls happen, the commit button carries at most one
\* interceptCommit click listener and its form at most one submit listener,
\* and a click on the button starts exactly one commitFile call, for the
\* editor of that one listener.
C32HijackedAtMostOnce ==
  /\ [](Len(button.listeners) <= 1 /\ Len(form.listeners) <= 1)
  /\ [][\A k \in DOMAIN commits' :
          (k \notin DOMAIN commits /\ commits'[k].trigger = "button")
          => /\ Len(commits') = Len(commits) + 1
             /\ button.listeners = <<commits'[k].editor>>]_vars

\* the button came late and was found by a later attempt of the polling; it
\* and its form carry the mark and one listener each, and a click on the
\* button has started a commit
C32Witness ==
  /\ Len(hij) = 1 /\ hij[1].wired /\ hij[1].attempts > 1
  /\ button.present /\ button.hijacked /\ Len(button.listeners) = 1
  /\ form.present /\ form.hijacked /\ Len(form.listeners) = 1
  /\ \E c \in DOMAIN commits : commits[c].trigger = "button"

\* ------------------------------------------------ the language of the editor
\* monaco-injector.ts updateLanguage: nothing without a current editor or
\* without its model (a disposed editor has none)
UpdateLanguage(ps) ==
  IF currentEditor = 0 THEN editors
  ELSE IF editors[currentEditor].disposed THEN editors
  ELSE [editors EXCEPT ![currentEditor].language = DetectLanguage(ps)]

\* the user changes the filename input to ps: an 'input' event, which the
\* listener of observeFilenameChanges, when there is one, passes on to
\* updateLanguage with the new value
NameInputs == {<<>>, <<"notes">>, <<"app", ".", "tsx">>, <<"Makefile">>}
FilenameInput(ps) ==
  /\ ~unloaded
  /\ nameInput # NoInput /\ ps # nameInput
  /\ nameInput' = ps
  /\ editors' = IF nameWatch THEN UpdateLanguage(ps) ELSE editors
  /\ lastOp' = IF nameWatch THEN "name:update" ELSE "name:unheard"
  /\ UNCHANGED <<langVars, variants, authVars, nameWatch, form, textarea, loaded, els, parentFlex,
                 containers, currentEditor, currentDisposables, originalContent,
                 initialized, pending, hij, button, commitVars, envVars, popTimers>>

\* The language of the editor: an edit page with a filename input, the user
\* renaming the file, and navigation away and back.
NameUrls == {UrlEditA, UrlBlob}
InitName ==
  /\ InitPage({UrlEditA}, {FreshButton(TRUE)}, {Remote0})
  /\ nameInput \in NameInputs
  /\ els["container"] = FreshEl(FALSE, "")
  /\ els["wrapper"] = AbsentEl
  /\ NoCall /\ textarea = NoTextarea
NameNext ==
  \/ InitialAttempt
  \/ \E added \in BOOLEAN : PageMutation(added)
  \/ \E i \in EditorIds, net \in NetOutcomes : FetchDone(i, net)
  \/ \E u \in NameUrls : Navigate(u)
  \/ \E ps \in NameInputs : FilenameInput(ps)
SpecName == InitName /\ [][NameNext]_vars

\* C33: once an injection has completed, the language of the current editor
\* is detectLanguage of the most recent filename - the one read at injection,
\* then the value of the filename input after each change of it - and a
\* change of the filename input changes no editor when there is no current
\* editor.
C33LanguageFollowsFilename ==
  /\ []((currentEditor # 0 /\ currentEditor \notin pending)
         => (~editors[currentEditor].disposed
               => editors[currentEditor].language = DetectLanguage(nameInput)))
  /\ [][(nameInput' # nameInput /\ currentEditor = 0) => editors' = editors]_vars

\* ------------------------------------------- the two variants of the client
\* what the server (or the network) answers to one request: a 2xx answer with
\* a JSON body, a 2xx answer whose body is not JSON, a non-2xx answer, or a
\* rejected fetch. The body of a GET may hold the content, the sha, both or
\* neither.
Answers ==
  {[net |-> "ok", content |-> c, sha |-> h] :
      c \in {<<>>, Btoa("r0")}, h \in {NoSha, Sha("r0")}}
    \cup {[net |-> n, content |-> <<>>, sha |-> NoSha] :
            n \in {"badjson", "http_error", "neterr"}}

\* `https://api.github.com/repos/${owner}/${repo}/contents/${path}`, with
\* `?ref=${branch}` for a GET
ContentsUrl(info, ref) ==
  "https://api.github.com/repos/" \o info.owner \o "/" \o info.repo
    \o "/contents/" \o info.path \o (IF ref THEN "?ref=" \o info.branch ELSE "")

NoAuth == "<no Authorization header>"
NoJson == "<no body>"
Rejected == [rejected |-> TRUE]

\* github-api.ts githubApiFetch: the captured Authorization header when there
\* is one, and credentials: 'include'
CookieGithubApiFetch(cached, method, u, body) ==
  [method |-> method, url |-> u, body |-> body,
   authorization |-> IF cached # NoAuth THEN cached ELSE NoAuth,
   credentials |-> "include"]

\* the storage entries getGitHubToken looks at: whether the key holds 'token'
\* or 'auth', and the value: JSON with a token field, a raw gho_/ghp_ token, or
\* something else
StorageEntries ==
  {[key |-> k, json |-> j, value |-> v] :
     k \in BOOLEAN, j \in BOOLEAN, v \in {"gho_1", "other"}}
Storages == {<<>>} \cup {<<e>> : e \in StorageEntries}

\* part_000 getGitHubToken over the entries of sessionStorage, then those of
\* localStorage: the first token found, null when there is none
RECURSIVE GetGitHubToken(_)
GetGitHubToken(entries) ==
  IF entries = <<>> THEN NullText
  ELSE LET e == entries[1]
       IN IF e.key /\ e.json /\ e.value # "other" THEN e.value
          ELSE IF e.key /\ ~e.json /\ e.value = "gho_1" THEN e.value
          ELSE GetGitHubToken(Tail(entries))

\* part_000 githubApiFetch: Authorization: Bearer <token> when a token was
\* found, and no credentials option (the default of fetch)
TokenGithubApiFetch(storage, method, u, body) ==
  [method |-> method, url |-> u, body |-> body,
   authorization |-> IF GetGitHubToken(storage) # NullText
                     THEN "Bearer " \o GetGitHubToken(storage) ELSE NoAuth,
   credentials |-> "same-origin"]

\* part_000 parseRepoInfo
TokenParseRepoInfo(u) ==
  IF Len(u) >= 4 /\ u[3] \in {"edit", "new"}
  THEN [owner |-> u[1], repo |-> u[2], branch |-> u[4],
        path |-> JoinPath(SubSeq(u, 5, Len(u)))]
  ELSE NullInfo

\* getFileSha of either variant, given the answer to its request:
\* data.sha || null, and null when the answer is not ok or nothing parses
CookieGetFileSha(a) == IF a.net = "ok" THEN a.sha ELSE NoSha
TokenGetFileSha(a) == IF a.net = "ok" THEN a.sha ELSE NoSha

\* what commitFile returns once its PUT is answered
CookiePutResult(a) ==
  IF a.net \in {"ok"} THEN [success |-> TRUE, error |-> ""]
  ELSE IF a.net = "http_error" THEN [success |-> FALSE, error |-> "HTTP"]
  ELSE [success |-> FALSE, error |-> "String(err)"]
TokenPutResult(a) ==
  IF a.net \in {"ok"} THEN [success |-> TRUE, error |-> ""]
  ELSE IF a.net = "http_error" THEN [success |-> FALSE, error |-> "HTTP"]
  ELSE [success |-> FALSE, error |-> "String(err)"]

\* github-api.ts commitFile, run to its end against the answers as: the
\* requests it makes and what its promise settles to
CookieCommitFile(cached, info, message, content, optSha, as) ==
  LET lookup == optSha = NoSha /\ info.path # ""
      get == CookieGithubApiFetch(cached, "GET", ContentsUrl(info, TRUE), NoJson)
      sha == IF lookup THEN CookieGetFileSha(as[1]) ELSE optSha
      first == IF lookup THEN <<get>> ELSE <<>>
      put == CookieGithubApiFetch(cached, "PUT", ContentsUrl(info, FALSE),
                                  PutBody(info, message, content, sha))
  IN IF EncodeThrows(content) THEN [done |-> TRUE, requests |-> first, result |-> Rejected]
     ELSE [done |-> TRUE, requests |-> Append(first, put),
           result |-> CookiePutResult(as[Len(first) + 1])]

\* a commitFile of part_000 that looks the SHA up although one was given
TokenCommitFileAlwaysLooksUp(storage, info, message, content, optSha, as) ==
  LET lookup == info.path # ""
      get == TokenGithubApiFetch(storage, "GET", ContentsUrl(info, TRUE), NoJson)
      sha == IF lookup THEN TokenGetFileSha(as[1]) ELSE optSha
      first == IF lookup THEN <<get>> ELSE <<>>
      put == TokenGithubApiFetch(storage, "PUT", ContentsUrl(info, FALSE),
               [message |-> message, content |-> Btoa(content),
                branch |-> info.branch, sha |-> sha])
  IN IF EncodeThrows(content) THEN [done |-> TRUE, requests |-> first, result |-> Rejected]
     ELSE [done |-> TRUE, requests |-> Append(first, put),
           result |-> TokenPutResult(as[Len(first) + 1])]

\* part_000 commitFile, run to its end against the answers as
TokenCommitFile(storage, info, message, content, optSha, as) ==
  LET lookup == optSha = NoSha /\ info.path # ""
      get == TokenGithubApiFetch(storage, "GET", ContentsUrl(info, TRUE), NoJson)
      sha == IF lookup THEN TokenGetFileSha(as[1]) ELSE optSha
      first == IF lookup THEN <<get>> ELSE <<>>
      put == TokenGithubApiFetch(storage, "PUT", ContentsUrl(info, FALSE),
               [message |-> message, content |-> Btoa(content),
                branch |-> info.branch, sha |-> sha])
  IN IF EncodeThrows(content) THEN [done |-> TRUE, requests |-> first, result |-> Rejected]
     ELSE [done |-> TRUE, requests |-> Append(first, put),
           result |-> TokenPutResult(as[Len(first) + 1])]

\* getFileContent of either variant, run against the answer to its request
CookieGetFileContent(cached, info, as) ==
  [done |-> TRUE, requests |-> <<CookieGithubApiFetch(cached, "GET", ContentsUrl(info, TRUE), NoJson)>>,
   result |-> [text |-> IF as[1].net # "ok" THEN NullText
                        ELSE IF as[1].content # <<>> THEN Atob(as[1].content)
                        ELSE NullText]]
TokenGetFileContent(storage, info, as) ==
  [done |-> TRUE, requests |-> <<TokenGithubApiFetch(storage, "GET", ContentsUrl(info, TRUE), NoJson)>>,
   result |-> [text |-> IF as[1].net # "ok" THEN NullText
                        ELSE IF as[1].content # <<>> THEN Atob(as[1].content)
                        ELSE NullText]]

\* the calls followed: one function of the client, its arguments, the answers
\* of the server to the first and the second request, the header the cookie
\* variant has captured and the storage the token variant reads
NoRun == [done |-> FALSE, requests |-> <<>>, result |-> [none |-> TRUE]]
PutAnswers == {a \in Answers : a.content = <<>> /\ a.sha = NoSha}
VariantCalls ==
  {[fn |-> "parseRepoInfo", u |-> u, cookie |-> NoRun, token |-> NoRun] : u \in Urls}
  \cup
  {[fn |-> "getFileContent", info |-> i, as |-> <<a>>, cached |-> h,
    storage |-> s, cookie |-> NoRun, token |-> NoRun] :
     i \in ApiInfos, a \in Answers, h \in {NoAuth, "token page"}, s \in Storages}
  \cup
  {[fn |-> "commitFile", info |-> i, message |-> "fix", content |-> t,
    optSha |-> o, as |-> <<a1, a2>>, cached |-> h, storage |-> s,
    cookie |-> NoRun, token |-> NoRun] :
     i \in ApiInfos, t \in {"typed", LoneSurrogate}, o \in {NoSha, Sha("r0")},
     a1 \in Answers, a2 \in PutAnswers, h \in {NoAuth, "token page"},
     s \in {<<>>, <<[key |-> TRUE, json |-> FALSE, value |-> "gho_1"]>>}}

\* the call made with the client of github-api.ts
RunCookie ==
  /\ variants.fn # "none" /\ ~variants.cookie.done
  /\ variants' = [variants EXCEPT !.cookie =
       CASE variants.fn = "parseRepoInfo" ->
              [done |-> TRUE, requests |-> <<>>, result |-> ParseRepoInfo(variants.u)]
         [] variants.fn = "getFileContent" ->
              CookieGetFileContent(variants.cached, variants.info, variants.as)
         [] variants.fn = "commitFile" ->
              CookieCommitFile(variants.cached, variants.info, variants.message,
                               variants.content, variants.optSha, variants.as)]
  /\ UNCHANGED <<langVars, loaded, url, els, parentFlex, containers, editors,
                 currentEditor, currentDisposables, originalContent, initialized,
                 pending, button, hij, commits, notices, remote, remoteEdits,
                 unloaded, popTimers, lastOp, textarea, authVars, nameVars, form>>

\* the call made with the client of part_000
RunToken ==
  /\ variants.fn # "none" /\ ~variants.token.done
  /\ variants' = [variants EXCEPT !.token =
       CASE variants.fn = "parseRepoInfo" ->
              [done |-> TRUE, requests |-> <<>>, result |-> TokenParseRepoInfo(variants.u)]
         [] variants.fn = "getFileContent" ->
              TokenGetFileContent(variants.storage, variants.info, variants.as)
         [] variants.fn = "commitFile" ->
              TokenCommitFile(variants.storage, variants.info, variants.message,
                              variants.content, variants.optSha, variants.as)]
  /\ UNCHANGED <<langVars, loaded, url, els, parentFlex, containers, editors,
                 currentEditor, currentDisposables, originalContent, initialized,
                 pending, button, hij, commits, notices, remote, remoteEdits,
                 unloaded, popTimers, lastOp, textarea, authVars, nameVars, form>>

\* The two clients side by side: every call, made once with each.
InitVariants ==
  /\ InitModule({UrlBlob}, {NoButton}, {Remote0})
  /\ nameInput = NoInput
  /\ variants \in VariantCalls
  /\ els = [e \in ElemIds |-> AbsentEl]
  /\ NoCall /\ textarea = NoTextarea
VariantsNext == RunCookie \/ RunToken
SpecVariants == InitVariants /\ [][VariantsNext]_vars

\* what of a request does not concern authentication
Unauthenticated(r) == [method |-> r.method, url |-> r.url, body |-> r.body]

\* C34: for the same location, arguments and answers of the server,
\* parseRepoInfo, getFileContent and commitFile of the cookie-based client and
\* of the token-scraping client make the same requests (method, URL, body) in
\* the same order and return the same result; requests differ only in the
\* Authorization header and the credentials mode.
C34VariantsAgree ==
  (variants.fn # "none" /\ variants.cookie.done /\ variants.token.done)
  => /\ Len(variants.cookie.requests) = Len(variants.token.requests)
     /\ \A k \in DOMAIN variants.cookie.requests :
          Unauthenticated(variants.cookie.requests[k])
            = Unauthenticated(variants.token.requests[k])
     /\ variants.cookie.result = variants.token.result

\* commitFile was run with both clients: each looked the SHA up and sent the
\* PUT with it, one with the captured header and the cookies, the other with
\* the token it found and no credentials, and both report success
C34Witness ==
  /\ variants.fn = "commitFile"
  /\ variants.cookie.done /\ variants.token.done
  /\ Len(variants.cookie.requests) = 2 /\ Len(variants.token.requests) = 2
  /\ variants.cookie.requests[2].body.sha = Sha("r0")
  /\ variants.cookie.requests[2].authorization = "token page"
  /\ variants.token.requests[2].authorization = "Bearer gho_1"
  /\ variants.cookie.requests[2].credentials # variants.token.requests[2].credentials
  /\ variants.cookie.result = [success |-> TRUE, error |-> ""]
  /\ variants.token.result = variants.cookie.result

====
